---------------------------- MODULE Spec2Model ----------------------------
(***************************************************************************)
(* Delivery engine of webhook-retry-backend: ingestion with a cached       *)
(* pause state, the pause/resume buffer, single replay, endpoint deletion, *)
(* the BullMQ work queue and the dispatcher (worker) with its retry        *)
(* classification.                                                         *)
(*                                                                         *)
(* Every `await` of a handler on the relational store, on Redis or on the  *)
(* queue is one step of the model, so that requests and workers interleave *)
(* exactly where the Node.js event loop lets them.  Spec allows every      *)
(* interleaving; SpecSeq schedules the same steps one operation at a time. *)
(* ClassifySpec runs the retry classification alone, over every answer.    *)
(* The status updates of the dispatcher may be rejected by the store.      *)
(*                                                                         *)
(* The other parts of the program have specifications of their own over    *)
(* the same variables: BackoffSpec and RetrySpec (the retry schedule and   *)
(* the failed listener), SmoothSpec (traffic smoothing), VerifySpec and    *)
(* IngestSpec (signatures and the ingest replies), LoggerSpec,             *)
(* LoggerFairSpec and ShutdownSpec (the batch logger), SweepSpec (the      *)
(* retention sweep), GuardSpec (target addresses), HeaderSpec (outbound    *)
(* headers) and ReplaySpec (replay of failed events).                      *)
(***************************************************************************)
EXTENDS Integers, Sequences, FiniteSets, TLC

(***************************************************************************)
(* Bounds of the model.                                                    *)
(***************************************************************************)
MaxEvents == 2
MaxJobs == 2
MaxRetries == 1
\* seconds that pass in a run of the traffic smoothing
MaxClock == 1
\* dispatches that pass the traffic smoothing in one run
MaxAdmissions == 12
\* key=value elements in one stripe-signature header
MaxElements == 3
\* BatchLogger.add calls in one run
MaxEntries == 7
\* BatchLogger.BATCH_SIZE, 100 in the source
BATCH_SIZE == 3
\* dispatch attempts in flight at one time in a run of the shutdown
MaxActive == 2
\* event rows in the store when the retention sweep runs
MaxRows == 3

(***************************************************************************)
(* Program constants.                                                      *)
(***************************************************************************)
attempts == 18
NetworkErrorStatus == 500

Endpoints == {"d1", "d2"}
Api == {"a1", "a2"}
Workers == {"w1"}
\* the two revisions of the dispatcher that the repository holds
Builds == {"part_006", "worker.ts"}
NoResponse == 0
\* what the receiver may answer to one outbound call (0: no response at all)
Responses == {200, 400, 503, NoResponse}
NoEndpoint == "-"

VARIABLES
  build,        \* which revision of the dispatcher is running
  serial,       \* TRUE: an operation starts only when every other has finished
  retryBound,   \* the attempts of one job that the receiver and the store may fail
  isPaused,     \* Endpoint.isPaused, per endpoint row
  epExists,     \* whether the Endpoint row exists
  cache,        \* Redis key endpoint:<id>:config, per endpoint
  events,       \* WebhookEvent rows: id -> [endpointId, status]
  nextEventId,  \* number of WebhookEvent rows created so far, plus one
  jobs,         \* webhook-queue: job id -> [eventId, attemptsMade, state]
  attemptLog,   \* batchLogger.add calls of the jobs in the queue: job id -> [ok, failed]
  attempted,    \* the events that have a delivery attempt recorded
  listener,     \* jobs whose final 'failed' event still awaits its handler
  api,          \* the API requests in flight, per connection
  worker,       \* the jobs being processed, per worker slot
  resumed,      \* history of serial runs: endpoints resumed, no event ingested since
  outcome,      \* history: the last answer to POST /hooks, per connection
  classified,   \* the catch block's verdict on one failed attempt
  backoff,      \* work items that keep failing: what is logged, what the queue applies
  clock,        \* Math.floor(Date.now() / 1000) of the dispatcher
  rate,         \* Redis keys rate:<endpoint>:<second>: the counter (0: no key)
  ttl,          \* seconds to live set on the rate keys (0: none)
  gate,         \* the dispatches between the INCR and the outbound call
  counts,       \* history: the values INCR returned, per key, in order
  row,          \* Endpoint.secret, provider and isActive, per endpoint row (no handler writes them)
  observe,      \* TRUE: the answers to POST /hooks are recorded in outcome
  verified,     \* one call of StripeVerifier.verify: its arguments and what it returned
  buffer,       \* BatchLogger.buffer: the entries not yet flushed
  createMany,   \* the prisma.deliveryAttempt.createMany calls in progress, by their number
  handed,       \* history: dataToWrite of every createMany call, in order
  added,        \* history: the number of BatchLogger.add calls made
  stored,       \* history: the entries of the createMany calls that succeeded
  failedWrites, \* history: the createMany calls that were rejected
  unhandled,    \* flush() promises that were rejected
  proc,         \* the worker process: running, flushing, closing, exited
  awaited,      \* the createMany call the SIGINT handler's flush waits for
  active,       \* dispatch attempts in flight that have not recorded their entry
  alone,        \* TRUE: the retention sweep runs while nothing else does
  receivedAt,   \* WebhookEvent.receivedAt in days, per event row of a run of the retention sweep
  archivedSuccessCount, \* Endpoint.archivedSuccessCount, per endpoint row
  cleanup,      \* CleanupService.runCleanup: where it is, and its eventsToArchive
  before,       \* history: the event rows when the sweep began
  archivedBy,   \* history: what the sweep added to archivedSuccessCount, per endpoint
  deletedBy,    \* history: the event rows the sweep deleted, per endpoint
  targetUrl,    \* the stored target address of every endpoint
  request,      \* the last create or edit request answered
  headers,      \* the stored headers of the event being dispatched
  posted        \* the headers of the outbound request

engineVars == <<isPaused, epExists, cache, events, nextEventId, jobs,
                attemptLog, attempted, listener, api, worker, resumed, outcome>>

\* how a run is set up
modeVars == <<build, serial, retryBound>>

\* the traffic smoothing of the dispatcher
smoothVars == <<clock, rate, ttl, gate, counts>>

\* the columns of Endpoint that ingest reads, and whether its answers are recorded
ingestVars == <<row, observe>>

\* the signature check of the Stripe verifier
verifyVars == <<verified>>

\* the batched log writer
loggerVars == <<buffer, createMany, handed, added, stored, failedWrites, unhandled,
                proc, awaited, active>>

\* the retention sweep
sweepVars == <<alone, receivedAt, archivedSuccessCount, cleanup, before, archivedBy, deletedBy>>

\* the target addresses and the requests that set them
guardVars == <<targetUrl, request>>

\* the headers of one delivery
headerVars == <<headers, posted>>

\* what no step of the API or the dispatcher changes
fixed == <<modeVars, classified, backoff, smoothVars, ingestVars, verifyVars, loggerVars, sweepVars, guardVars, headerVars>>

vars == <<fixed, engineVars>>

Statuses == {"PENDING", "PROCESSING", "COMPLETED", "FAILED", "PAUSED"}

\* evs: pausedEvents or failedEvents
IdleApi == [op |-> "idle", pc |-> "idle", id |-> NoEndpoint, ev |-> 0,
            isPaused |-> FALSE, newPausedState |-> FALSE, evs |-> {},
            recoveredCount |-> 0]
IdleWorker == [pc |-> "idle", job |-> 0]
NoCache == [hit |-> FALSE, isPaused |-> FALSE]
NoEntries == [ok |-> 0, failed |-> 0]
\* verdict: what verifier.verify returned, "none" when it was not called
NoOutcome == [id |-> NoEndpoint, signed |-> FALSE, verdict |-> "none", status |-> 0, error |-> ""]

NotClassified == [response |-> NoResponse, status |-> 0, isFatalError |-> FALSE, done |-> FALSE]

\* the work items followed through their retries
RetryJobs == {1, 2}

\* a work item that has not failed yet
FreshRetry == [attemptsMade |-> 0, nextDelayMs |-> 0, delay |-> 0, previous |-> 0, state |-> "waiting"]

\* concurrent runs of the processor that pass the smoothing gate
Gates == {"g1", "g2"}
\* Math.floor(Date.now() / 1000), from the start of the run
Buckets == 0..MaxClock
\* rate:<endpoint id>:<now>
Keys == Endpoints \X Buckets
\* Endpoint.rateLimit of the two endpoints
rateLimit == [d \in Endpoints |-> IF d = "d1" THEN 5 ELSE 2]
IdleGate == [pc |-> "idle", key |-> <<NoEndpoint, 0>>, currentCount |-> 0, delayMs |-> 0]

\* no dispatch has passed the gate: no key in Redis
SmoothAtRest ==
  /\ clock = 0
  /\ rate = [k \in Keys |-> 0]
  /\ ttl = [k \in Keys |-> 0]
  /\ gate = [g \in Gates |-> IdleGate]
  /\ counts = [k \in Keys |-> <<>>]

\* Endpoint.provider as stored, in the spellings the code tells apart
Providers == {"stripe", "Stripe", "generic", "shopify"}
\* Endpoint rows: secret (TRUE: a non-empty secret), provider, isActive
Rows == [secret : BOOLEAN, provider : Providers, isActive : BOOLEAN]
\* d1 verifies Stripe signatures, d2 verifies nothing; both are active
DefaultRows ==
  [d \in Endpoints |->
     IF d = "d1" THEN [secret |-> TRUE, provider |-> "stripe", isActive |-> TRUE]
     ELSE [secret |-> FALSE, provider |-> "generic", isActive |-> TRUE]]

IngestAtRest ==
  /\ row = DefaultRows
  /\ observe = FALSE

\* no call of StripeVerifier.verify made yet
NotVerified == [fields |-> <<>>, header |-> "absent", text |-> <<>>, secret |-> "",
                rawBody |-> "", now |-> 0, result |-> FALSE, done |-> FALSE]

VerifyAtRest == verified = NotVerified

\* a BatchLogger just constructed
LoggerAtRest ==
  /\ buffer = <<>>
  /\ createMany = {}
  /\ handed = <<>>
  /\ added = 0
  /\ stored = {}
  /\ failedWrites = {}
  /\ unhandled = {}
  /\ proc = "running"
  /\ awaited = 0
  /\ active = 0

\* no retention sweep has run; groups is eventsToArchive
IdleCleanup == [pc |-> "idle", groups |-> <<>>]
SweepAtRest ==
  /\ alone = FALSE
  /\ receivedAt = <<>>
  /\ archivedSuccessCount = [d \in Endpoints |-> 0]
  /\ cleanup = IdleCleanup
  /\ before = <<>>
  /\ archivedBy = [d \in Endpoints |-> 0]
  /\ deletedBy = [d \in Endpoints |-> {}]

\* no endpoint has a target address and no request was answered
NoTarget == [protocol |-> "absent", hostname |-> "absent"]
NoRequest == [route |-> "none", targetUrl |-> NoTarget, safe |-> "not called", status |-> 0]
GuardAtRest ==
  /\ targetUrl = [d \in Endpoints |-> NoTarget]
  /\ request = NoRequest

\* no event's headers were read and no request was sent
NoHeaders == [sent |-> FALSE, headers |-> <<>>]
HeaderAtRest ==
  /\ headers = <<>>
  /\ posted = NoHeaders

\* the store, the cache and the queue after construction, with the endpoints
\* of `registered` created
InitEngine(registered) ==
  /\ isPaused = [d \in Endpoints |-> FALSE]
  /\ epExists = [d \in Endpoints |-> d \in registered]
  /\ cache = [d \in Endpoints |-> NoCache]
  /\ events = <<>>
  /\ nextEventId = 1
  /\ jobs = <<>>
  /\ attemptLog = [j \in 1..MaxJobs |-> NoEntries]
  /\ attempted = {}
  /\ listener = {}
  /\ api = [a \in Api |-> IdleApi]
  /\ worker = [w \in Workers |-> IdleWorker]
  /\ resumed = {}
  /\ outcome = [a \in Api |-> NoOutcome]

\* the two revisions of the dispatcher treat the statuses of Responses alike
InitWith(registered, mode) ==
  /\ build = "part_006"
  /\ serial = mode
  /\ retryBound = MaxRetries
  /\ classified = NotClassified
  /\ backoff = [j \in RetryJobs |-> FreshRetry]
  /\ SmoothAtRest
  /\ HeaderAtRest
  /\ GuardAtRest
  /\ SweepAtRest
  /\ LoggerAtRest
  /\ VerifyAtRest
  /\ IngestAtRest
  /\ InitEngine(registered)

\* one registered endpoint; requests and the dispatcher interleave
Init == InitWith({"d1"}, FALSE)

\* two registered endpoints; one operation at a time
InitSeq == InitWith(Endpoints, TRUE)

\* every connection and worker other than p is idle
OthersIdle(p) ==
  /\ \A a \in Api \ {p} : api[a].op = "idle"
  /\ \A w \in Workers \ {p} : worker[w].pc = "idle"

\* p may begin an operation
MayStart(p) == serial => (OthersIdle(p) /\ (alone => cleanup.pc # "loop"))

\* the history of the resumes
Remember(d) == IF serial THEN resumed \cup {d} ELSE resumed
Forget(d) == IF serial THEN resumed \ {d} ELSE resumed

Exists(e) == e \in DOMAIN events
EventsOf(d) == {e \in DOMAIN events : events[e].endpointId = d}

(***************************************************************************)
(* QueueService                                                            *)
(***************************************************************************)
NewJob(e) == [eventId |-> e, attemptsMade |-> 0, state |-> "waiting"]

\* a job that returned, or failed for good, is removed from the queue
\* (removeOnComplete, removeOnFail); its id is not used again
Removed == [eventId |-> 0, attemptsMade |-> 0, state |-> "removed"]

\* a work item that has used up its attempts
addJobSpent(q, e) == Append(q, [NewJob(e) EXCEPT !.attemptsMade = MaxRetries])
\* QueueService.addJob: one job with attempts: 18 and exponential backoff
addJob(q, e) == Append(q, NewJob(e))

\* QueueService.addJobsBulk: one job per element, in one addBulk call
RECURSIVE addJobsBulk(_, _)
addJobsBulk(q, es) ==
  IF es = {} THEN q
  ELSE LET e == CHOOSE x \in es : \A y \in es : x <= y
       IN addJobsBulk(Append(q, NewJob(e)), es \ {e})

(***************************************************************************)
(* POST /hooks/:endpointId and IngestionService.ingest                     *)
(***************************************************************************)
\* connections are interchangeable: a new request takes the first idle one
FirstIdle(a) ==
  /\ api[a].op = "idle" /\ (a = "a1" \/ api["a1"].op # "idle")
  /\ MayStart(a)

\* the bound on event rows, counted with the ingests already in flight
IngestsInFlight == Cardinality({a \in Api : api[a].op = "ingest"})

\* the answer to one POST /hooks, kept when the run records them
Answer(a, o) == IF observe THEN [outcome EXCEPT ![a] = o] ELSE outcome

\* a check that ignores isActive
NotFound(d) == ~epExists[d]
\* !endpoint || !endpoint.isActive
NotFoundOrInactive(d) == ~epExists[d] \/ ~row[d].isActive

\* a check made for every endpoint
VerifiesAlways(d) == TRUE
\* endpoint.secret && endpoint.provider !== 'generic'
RequiresVerification(d) == row[d].secret /\ row[d].provider # "generic"

toLowerCase(provider) == IF provider = "Stripe" THEN "stripe" ELSE provider
getVerifier(provider) ==
  IF toLowerCase(provider) = "stripe" THEN "StripeVerifier" ELSE "GenericVerifier"
\* signed: what StripeVerifier.verify makes of the headers and the body
verify(verifier, signed) == IF verifier = "GenericVerifier" THEN TRUE ELSE signed

\* a handler that lets an invalid signature pass
ThrowsNever(d, isValid) == FALSE
\* if (!isValid) throw new Error('Invalid Signature')
ThrowsInvalidSignature(d, isValid) == RequiresVerification(d) /\ ~isValid

\* redisClient.get(cacheKey): a hit hands the cached isPaused to ingest
IngestCacheGet(a, d) ==
  /\ FirstIdle(a)
  /\ nextEventId + IngestsInFlight <= MaxEvents
  /\ api' = [api EXCEPT ![a] =
       IF cache[d].hit
       THEN [IdleApi EXCEPT !.op = "ingest", !.pc = "ingest", !.id = d,
                            !.isPaused = cache[d].isPaused]
       ELSE [IdleApi EXCEPT !.op = "ingest", !.pc = "findEndpoint", !.id = d]]
  /\ UNCHANGED <<fixed, outcome, isPaused, epExists, cache, events, nextEventId, jobs,
                 attemptLog, attempted, listener, worker, resumed>>

\* cache miss: prisma.endpoint.findUnique, 404 when the row is missing
IngestFindEndpoint(a) ==
  /\ api[a].op = "ingest" /\ api[a].pc = "findEndpoint"
  /\ api' = [api EXCEPT ![a] =
       IF epExists[api[a].id]
       THEN [@ EXCEPT !.pc = "cacheSet", !.isPaused = isPaused[api[a].id]]
       ELSE IdleApi]
  /\ outcome' = IF epExists[api[a].id] THEN outcome
                ELSE Answer(a, [NoOutcome EXCEPT !.id = api[a].id, !.status = 404,
                                                 !.error = "Endpoint not found"])
  /\ UNCHANGED <<fixed, isPaused, epExists, cache, events, nextEventId, jobs,
                 attemptLog, attempted, listener, worker, resumed>>

\* redisClient.set(cacheKey, ..., 'EX', 60)
IngestCacheSet(a) ==
  /\ api[a].op = "ingest" /\ api[a].pc = "cacheSet"
  /\ cache' = [cache EXCEPT ![api[a].id] = [hit |-> TRUE, isPaused |-> api[a].isPaused]]
  /\ api' = [api EXCEPT ![a].pc = "ingest"]
  /\ UNCHANGED <<fixed, outcome, isPaused, epExists, events, nextEventId, jobs,
                 attemptLog, attempted, listener, worker, resumed>>

\* the cached key expires after its 60 s
CacheExpire(d) ==
  /\ MayStart("redis")
  /\ cache[d].hit
  /\ cache' = [cache EXCEPT ![d] = NoCache]
  /\ UNCHANGED <<fixed, outcome, isPaused, epExists, events, nextEventId, jobs,
                 attemptLog, attempted, listener, api, worker, resumed>>

\* ingest, steps 1 and 2: load the endpoint, verify the signature
IngestVerify(a) ==
  /\ api[a].op = "ingest" /\ api[a].pc = "ingest"
  /\ \E signed \in BOOLEAN :
       LET d == api[a].id
           called == ~NotFoundOrInactive(d) /\ RequiresVerification(d)
           isValid == verify(getVerifier(row[d].provider), signed)
           error == IF NotFoundOrInactive(d) THEN "Endpoint not found or inactive"
                    ELSE IF ThrowsInvalidSignature(d, isValid) THEN "Invalid Signature"
                    ELSE ""
       IN /\ api' = [api EXCEPT ![a] =
               IF error = "" THEN [@ EXCEPT !.pc = "create"] ELSE IdleApi]
          /\ outcome' = Answer(a, [id |-> d, signed |-> signed,
                                   verdict |-> IF ~called THEN "none"
                                               ELSE IF isValid THEN "true" ELSE "false",
                                   status |-> IF error = "" THEN 0 ELSE 400,
                                   error |-> error])
  /\ UNCHANGED <<fixed, isPaused, epExists, cache, events, nextEventId, jobs,
                 attemptLog, attempted, listener, worker, resumed>>

initialStatus(paused) == IF paused THEN "PAUSED" ELSE "PENDING"

\* ingest, step 3: prisma.webhookEvent.create (a foreign-key error when the
\* endpoint row is gone)
IngestCreate(a) ==
  /\ api[a].op = "ingest" /\ api[a].pc = "create"
  /\ IF epExists[api[a].id]
     THEN /\ events' = events @@ (nextEventId :>
                 [endpointId |-> api[a].id, status |-> initialStatus(api[a].isPaused)])
          /\ nextEventId' = nextEventId + 1
          /\ resumed' = Forget(api[a].id)
          /\ api' = [api EXCEPT ![a] =
               IF api[a].isPaused THEN IdleApi
               ELSE [@ EXCEPT !.pc = "addJob", !.ev = nextEventId]]
          /\ outcome' = IF api[a].isPaused
                        THEN Answer(a, [outcome[a] EXCEPT !.status = 200])
                        ELSE outcome
     ELSE /\ api' = [api EXCEPT ![a] = IdleApi]
          /\ outcome' = Answer(a, [outcome[a] EXCEPT !.status = 400,
                                                     !.error = "Foreign key"])
          /\ UNCHANGED <<events, nextEventId, resumed>>
  /\ UNCHANGED <<fixed, isPaused, epExists, cache, jobs, attemptLog, attempted,
                 listener, worker>>

\* ingest, step 4: queue.addJob('dispatch-webhook', { eventId })
IngestAddJob(a) ==
  /\ api[a].op = "ingest" /\ api[a].pc = "addJob"
  /\ Len(jobs) < MaxJobs
  /\ jobs' = addJob(jobs, api[a].ev)
  /\ api' = [api EXCEPT ![a] = IdleApi]
  /\ outcome' = Answer(a, [outcome[a] EXCEPT !.status = 200])
  /\ UNCHANGED <<fixed, isPaused, epExists, cache, events, nextEventId,
                 attemptLog, attempted, listener, worker, resumed>>

(***************************************************************************)
(* POST /endpoints/:id/toggle-pause                                        *)
(***************************************************************************)
\* a findMany that drops the status from its filter
findManyAnyStatus(d, st) == EventsOf(d)

\* prisma.webhookEvent.findMany({ where: { endpointId, status: 'PAUSED' } })
findManyStatus(d, st) == {e \in EventsOf(d) : events[e].status = st}

\* an updateMany that drops the endpoint from its filter
updateManyAnyEndpoint(d, st) ==
  [e \in DOMAIN events |->
     IF events[e].status = st THEN [events[e] EXCEPT !.status = "PENDING"] ELSE events[e]]

\* prisma.webhookEvent.updateMany({ where: { endpointId, status }, data: { status: 'PENDING' } })
updateManyToPending(d, st) ==
  [e \in DOMAIN events |->
     IF events[e].endpointId = d /\ events[e].status = st
     THEN [events[e] EXCEPT !.status = "PENDING"] ELSE events[e]]

\* a handler that flushes the buffer whatever the new state is
IsResumeAlways(newPausedState) == TRUE

\* the branch `newPausedState === false`
IsResume(newPausedState) == newPausedState = FALSE

\* prisma.endpoint.findFirst, then newPausedState = !endpoint.isPaused
ToggleFind(a, d) ==
  /\ FirstIdle(a)
  /\ epExists[d]
  /\ api' = [api EXCEPT ![a] =
       [IdleApi EXCEPT !.op = "toggle", !.pc = "updateEndpoint", !.id = d,
                       !.newPausedState = ~isPaused[d]]]
  /\ UNCHANGED <<fixed, outcome, isPaused, epExists, cache, events, nextEventId, jobs,
                 attemptLog, attempted, listener, worker, resumed>>

\* 1. prisma.endpoint.update({ data: { isPaused: newPausedState } })
ToggleUpdateEndpoint(a) ==
  /\ api[a].op = "toggle" /\ api[a].pc = "updateEndpoint"
  /\ IF epExists[api[a].id]
     THEN /\ isPaused' = [isPaused EXCEPT ![api[a].id] = api[a].newPausedState]
          /\ api' = [api EXCEPT ![a].pc =
               IF IsResume(api[a].newPausedState) THEN "findPaused" ELSE "reply"]
     ELSE /\ api' = [api EXCEPT ![a] = IdleApi]
          /\ UNCHANGED isPaused
  /\ UNCHANGED <<fixed, outcome, epExists, cache, events, nextEventId, jobs,
                 attemptLog, attempted, listener, worker, resumed>>

\* 2. resuming: find all 'PAUSED' events; none: recoveredCount stays 0
ToggleFindPaused(a) ==
  /\ api[a].op = "toggle" /\ api[a].pc = "findPaused"
  /\ LET pausedEvents == findManyStatus(api[a].id, "PAUSED") IN
       IF pausedEvents = {}
       THEN /\ api' = [api EXCEPT ![a].pc = "reply"]
            /\ resumed' = Remember(api[a].id)
       ELSE /\ api' = [api EXCEPT ![a] = [@ EXCEPT !.pc = "updateMany", !.evs = pausedEvents]]
            /\ UNCHANGED resumed
  /\ UNCHANGED <<fixed, outcome, isPaused, epExists, cache, events, nextEventId, jobs,
                 attemptLog, attempted, listener, worker>>

\* update the PAUSED rows of the endpoint to PENDING
ToggleUpdateMany(a) ==
  /\ api[a].op = "toggle" /\ api[a].pc = "updateMany"
  /\ events' = updateManyToPending(api[a].id, "PAUSED")
  /\ api' = [api EXCEPT ![a].pc = "addJobsBulk"]
  /\ UNCHANGED <<fixed, outcome, isPaused, epExists, cache, nextEventId, jobs,
                 attemptLog, attempted, listener, worker, resumed>>

\* queue.addJobsBulk(jobs); recoveredCount = pausedEvents.length
ToggleAddJobsBulk(a) ==
  /\ api[a].op = "toggle" /\ api[a].pc = "addJobsBulk"
  /\ Len(jobs) + Cardinality(api[a].evs) <= MaxJobs
  /\ jobs' = addJobsBulk(jobs, api[a].evs)
  /\ resumed' = Remember(api[a].id)
  /\ api' = [api EXCEPT ![a] = [@ EXCEPT !.pc = "reply",
                                         !.recoveredCount = Cardinality(api[a].evs)]]
  /\ UNCHANGED <<fixed, outcome, isPaused, epExists, cache, events, nextEventId,
                 attemptLog, attempted, listener, worker>>

\* return { success: true, isPaused: newPausedState, flushedEvents: recoveredCount }
ToggleReply(a) ==
  /\ api[a].op = "toggle" /\ api[a].pc = "reply"
  /\ api' = [api EXCEPT ![a] = IdleApi]
  /\ UNCHANGED <<fixed, outcome, isPaused, epExists, cache, events, nextEventId, jobs,
                 attemptLog, attempted, listener, worker, resumed>>

(***************************************************************************)
(* POST /events/:id/replay, POST /endpoints/:id/recover, DELETE endpoint   *)
(***************************************************************************)
\* prisma.webhookEvent.findFirst (404 when there is no such event)
ReplayFind(a, e) ==
  /\ FirstIdle(a)
  /\ Exists(e)
  /\ api' = [api EXCEPT ![a] = [IdleApi EXCEPT !.op = "replay", !.pc = "update", !.ev = e]]
  /\ UNCHANGED <<fixed, outcome, isPaused, epExists, cache, events, nextEventId, jobs,
                 attemptLog, attempted, listener, worker, resumed>>

\* prisma.webhookEvent.update({ data: { status: 'PENDING' } }), which rejects
\* when the row is gone
ReplayUpdate(a) ==
  /\ api[a].op = "replay" /\ api[a].pc = "update"
  /\ IF Exists(api[a].ev)
     THEN /\ events' = [events EXCEPT ![api[a].ev].status = "PENDING"]
          /\ api' = [api EXCEPT ![a].pc = "addJob"]
     ELSE /\ api' = [api EXCEPT ![a] = IdleApi]
          /\ UNCHANGED events
  /\ UNCHANGED <<fixed, outcome, isPaused, epExists, cache, nextEventId, jobs,
                 attemptLog, attempted, listener, worker, resumed>>

\* queue.addJob('dispatch-webhook', { eventId: id })
ReplayAddJob(a) ==
  /\ api[a].op = "replay" /\ api[a].pc = "addJob"
  /\ Len(jobs) < MaxJobs
  /\ jobs' = addJob(jobs, api[a].ev)
  /\ api' = [api EXCEPT ![a] = IdleApi]
  /\ UNCHANGED <<fixed, outcome, isPaused, epExists, cache, events, nextEventId,
                 attemptLog, attempted, listener, worker, resumed>>

\* 1. verify ownership, 2. find all FAILED events of the endpoint
\* (none: 'No failed events to recover')
RecoverFind(a, d) ==
  /\ FirstIdle(a)
  /\ epExists[d]
  /\ LET failedEvents == findManyStatus(d, "FAILED") IN
       /\ failedEvents # {}
       /\ api' = [api EXCEPT ![a] =
            [IdleApi EXCEPT !.op = "recover", !.pc = "updateMany", !.id = d,
                            !.evs = failedEvents]]
  /\ UNCHANGED <<fixed, outcome, isPaused, epExists, cache, events, nextEventId, jobs,
                 attemptLog, attempted, listener, worker, resumed>>

\* 3. update the FAILED rows of the endpoint to PENDING
RecoverUpdateMany(a) ==
  /\ api[a].op = "recover" /\ api[a].pc = "updateMany"
  /\ events' = updateManyToPending(api[a].id, "FAILED")
  /\ api' = [api EXCEPT ![a].pc = "addJobsBulk"]
  /\ UNCHANGED <<fixed, outcome, isPaused, epExists, cache, nextEventId, jobs,
                 attemptLog, attempted, listener, worker, resumed>>

\* 4. queue.addJobsBulk(jobs)
RecoverAddJobsBulk(a) ==
  /\ api[a].op = "recover" /\ api[a].pc = "addJobsBulk"
  /\ Len(jobs) + Cardinality(api[a].evs) <= MaxJobs
  /\ jobs' = addJobsBulk(jobs, api[a].evs)
  /\ api' = [api EXCEPT ![a] = IdleApi]
  /\ UNCHANGED <<fixed, outcome, isPaused, epExists, cache, events, nextEventId,
                 attemptLog, attempted, listener, worker, resumed>>

\* prisma.endpoint.delete: the database cascades to the events of the endpoint;
\* the cached key and the jobs of the queue are left as they are.  An endpoint
\* is deleted while no request and no delivery is in flight.
DeleteEndpoint(d) ==
  /\ OthersIdle("api")
  /\ MayStart("api")
  /\ epExists[d]
  /\ epExists' = [epExists EXCEPT ![d] = FALSE]
  /\ isPaused' = [isPaused EXCEPT ![d] = FALSE]
  /\ events' = [e \in DOMAIN events \ EventsOf(d) |-> events[e]]
  /\ attempted' = attempted \ EventsOf(d)
  /\ resumed' = Forget(d)
  /\ UNCHANGED <<fixed, outcome, cache, nextEventId, jobs, attemptLog, listener, api, worker>>

(***************************************************************************)
(* The dispatcher: Worker('webhook-queue', processor) and worker.on('failed')*)
(***************************************************************************)
\* isFatalError of the unnamed revision: 4xx but 429 and 408
isFatalErrorPart006(status) ==
  (status >= 400 /\ status < 500) /\ status # 429 /\ status # 408

\* isFatalError of src/workers/worker.ts: 404 is retried as well
isFatalErrorWorkerTs(status) ==
  (status >= 400 /\ status < 500) /\ status # 429 /\ status # 408 /\ status # 404

isFatalError(b, status) ==
  IF b = "part_006" THEN isFatalErrorPart006(status) ELSE isFatalErrorWorkerTs(status)

\* const status = error.response ? error.response.status : 500
CatchStatus(r) == IF r = NoResponse THEN NetworkErrorStatus ELSE r

\* axios resolves for a 2xx status and rejects otherwise
Is2xx(r) == r >= 200 /\ r < 300

\* batchLogger.add({ webhookEventId, success, responseStatus, ... })
LogEntry(e, success, responseStatus) ==
  [webhookEventId |-> e, success |-> success, responseStatus |-> responseStatus]

\* BatchLogger.add, seen from the job that is being processed
add(log, j, entry) ==
  [log EXCEPT ![j] =
     IF entry.success THEN [@ EXCEPT !.ok = @ + 1] ELSE [@ EXCEPT !.failed = @ + 1]]

\* a queue that gives up at the first failure
MoveToFailedNoRetry(q, j) == [q EXCEPT ![j] = [@ EXCEPT !.attemptsMade = @ + 1, !.state = "failed"]]

\* BullMQ, when the processor throws: the attempt is counted and the job is
\* delayed for its backoff while attempts are left, and failed for good otherwise
MoveToFailed(q, j) ==
  [q EXCEPT ![j] = [@ EXCEPT !.attemptsMade = @ + 1,
                             !.state = IF q[j].attemptsMade + 1 < attempts
                                       THEN "delayed" ELSE "failed"]]

\* BullMQ, when the processor returns
MoveToCompleted(q, j) == [q EXCEPT ![j] = Removed]

\* worker.on('failed'): only a job with attemptsMade >= opts.attempts is dead
IsDead(job) == job.attemptsMade >= attempts

NotifyFailed(q, j) == IF IsDead(q[j]) THEN listener \cup {j} ELSE listener

\* a status update rejects when the store fails or the row is gone; the model
\* lets the receiver and the store fail an attempt of a job only
\* while the job has made fewer than retryBound attempts
MayFail(j) == jobs[j].attemptsMade < retryBound

\* the queue hands a waiting job to a free worker; the processor re-fetches the
\* event and returns at once when it is gone
WorkerFindEvent(w, j) ==
  /\ worker[w].pc = "idle" /\ MayStart(w)
  /\ j \in DOMAIN jobs /\ jobs[j].state = "waiting"
  /\ IF Exists(jobs[j].eventId)
     THEN /\ jobs' = [jobs EXCEPT ![j].state = "active"]
          /\ worker' = [worker EXCEPT ![w] = [pc |-> "post", job |-> j]]
          /\ UNCHANGED attemptLog
     ELSE /\ jobs' = MoveToCompleted(jobs, j)
          /\ attemptLog' = [attemptLog EXCEPT ![j] = NoEntries]
          /\ UNCHANGED worker
  /\ UNCHANGED <<fixed, outcome, isPaused, epExists, cache, events, nextEventId,
                 attempted, listener, api, resumed>>

\* axios.post and what follows without another await: the success entry, or the
\* catch block up to the FAILED update (fatal) or the re-throw (transient)
WorkerPost(w, r) ==
  /\ worker[w].pc = "post"
  /\ LET j == worker[w].job
         e == jobs[j].eventId
         status == CatchStatus(r) IN
       /\ attempted' = IF Exists(e) THEN attempted \cup {e} ELSE attempted
       /\ IF Is2xx(r)
          THEN /\ attemptLog' = add(attemptLog, j, LogEntry(e, TRUE, r))
               /\ worker' = [worker EXCEPT ![w].pc = "updateCompleted"]
               /\ UNCHANGED <<jobs, listener>>
          ELSE IF isFatalError(build, status)
          THEN /\ attemptLog' = add(attemptLog, j, LogEntry(e, FALSE, status))
               /\ worker' = [worker EXCEPT ![w].pc = "updateFailed"]
               /\ UNCHANGED <<jobs, listener>>
          ELSE /\ MayFail(j)
               /\ attemptLog' = add(attemptLog, j, LogEntry(e, FALSE, status))
               /\ jobs' = MoveToFailed(jobs, j)
               /\ listener' = NotifyFailed(jobs', j)
               /\ worker' = [worker EXCEPT ![w] = IdleWorker]
  /\ UNCHANGED <<fixed, outcome, isPaused, epExists, cache, events, nextEventId, api, resumed>>

\* prisma.webhookEvent.update({ data: { status: 'COMPLETED' } }) inside the try
\* block: when it rejects, the catch block takes the error for a failed
\* delivery without a response
WorkerUpdateCompleted(w, ok) ==
  /\ worker[w].pc = "updateCompleted"
  /\ LET j == worker[w].job
         e == jobs[j].eventId IN
       /\ ok => Exists(e)
       /\ ~ok => (MayFail(j) \/ ~Exists(e))
       /\ IF ok
          THEN /\ events' = [events EXCEPT ![e].status = "COMPLETED"]
               /\ jobs' = MoveToCompleted(jobs, j)
               /\ attemptLog' = [attemptLog EXCEPT ![j] = NoEntries]
               /\ UNCHANGED listener
          ELSE /\ attemptLog' = add(attemptLog, j, LogEntry(e, FALSE, CatchStatus(NoResponse)))
               /\ jobs' = MoveToFailed(jobs, j)
               /\ listener' = NotifyFailed(jobs', j)
               /\ UNCHANGED events
  /\ worker' = [worker EXCEPT ![w] = IdleWorker]
  /\ UNCHANGED <<fixed, outcome, isPaused, epExists, cache, nextEventId, attempted, api, resumed>>

\* prisma.webhookEvent.update({ data: { status: 'FAILED' } }) inside the catch
\* block, then `return`; when it rejects, the processor rejects with it
WorkerUpdateFailed(w, ok) ==
  /\ worker[w].pc = "updateFailed"
  /\ LET j == worker[w].job
         e == jobs[j].eventId IN
       /\ ok => Exists(e)
       /\ ~ok => (MayFail(j) \/ ~Exists(e))
       /\ IF ok
          THEN /\ events' = [events EXCEPT ![e].status = "FAILED"]
               /\ jobs' = MoveToCompleted(jobs, j)
               /\ attemptLog' = [attemptLog EXCEPT ![j] = NoEntries]
               /\ UNCHANGED listener
          ELSE /\ jobs' = MoveToFailed(jobs, j)
               /\ listener' = NotifyFailed(jobs', j)
               /\ UNCHANGED <<events, attemptLog>>
  /\ worker' = [worker EXCEPT ![w] = IdleWorker]
  /\ UNCHANGED <<fixed, outcome, isPaused, epExists, cache, nextEventId, attempted, api, resumed>>

\* the backoff delay of a delayed job has passed
PromoteDelayed(j) ==
  /\ MayStart("queue")
  /\ j \in DOMAIN jobs /\ jobs[j].state = "delayed"
  /\ jobs' = [jobs EXCEPT ![j].state = "waiting"]
  /\ UNCHANGED <<fixed, outcome, isPaused, epExists, cache, events, nextEventId,
                 attemptLog, attempted, listener, api, worker, resumed>>

(***************************************************************************)
(* The steps of one API connection and of one worker slot.                 *)
(***************************************************************************)
ApiStep(a) ==
  \/ \E d \in Endpoints : IngestCacheGet(a, d)
  \/ IngestFindEndpoint(a)
  \/ IngestCacheSet(a)
  \/ IngestVerify(a)
  \/ IngestCreate(a)
  \/ IngestAddJob(a)
  \/ \E d \in Endpoints : ToggleFind(a, d)
  \/ ToggleUpdateEndpoint(a)
  \/ ToggleFindPaused(a)
  \/ ToggleUpdateMany(a)
  \/ ToggleAddJobsBulk(a)
  \/ ToggleReply(a)
  \/ \E e \in 1..MaxEvents : ReplayFind(a, e)
  \/ ReplayUpdate(a)
  \/ ReplayAddJob(a)
  \/ \E d \in Endpoints : RecoverFind(a, d)
  \/ RecoverUpdateMany(a)
  \/ RecoverAddJobsBulk(a)

WorkerStep(w) ==
  \/ \E j \in 1..MaxJobs : WorkerFindEvent(w, j)
  \/ \E r \in Responses : WorkerPost(w, r)
  \/ \E ok \in BOOLEAN : WorkerUpdateCompleted(w, ok)
  \/ \E ok \in BOOLEAN : WorkerUpdateFailed(w, ok)

EnvStep ==
  \/ \E d \in Endpoints : CacheExpire(d)
  \/ \E d \in Endpoints : DeleteEndpoint(d)
  \/ \E j \in 1..MaxJobs : PromoteDelayed(j)

Next ==
  \/ \E a \in Api : ApiStep(a)
  \/ \E w \in Workers : WorkerStep(w)
  \/ EnvStep

\* requests and the dispatcher interleaved await by await
Spec == Init /\ [][Next]_vars

\* the same steps, one operation at a time, endpoints deleted in between
SpecSeq == InitSeq /\ [][Next]_vars

(***************************************************************************)
(* The classification of the catch block on its own, for either revision   *)
(* of the dispatcher and every answer that makes axios reject.             *)
(***************************************************************************)
\* a status outside 2xx, or no response at all
Rejections == {NoResponse} \cup (300..599)

InitClassify ==
  /\ build \in Builds
  /\ serial = TRUE
  /\ retryBound = MaxRetries
  /\ classified = NotClassified
  /\ backoff = [j \in RetryJobs |-> FreshRetry]
  /\ SmoothAtRest
  /\ HeaderAtRest
  /\ GuardAtRest
  /\ SweepAtRest
  /\ LoggerAtRest
  /\ VerifyAtRest
  /\ IngestAtRest
  /\ InitEngine({})

\* the catch block up to the test of isFatalError
Classify(r) ==
  /\ ~classified.done
  /\ classified' = [response |-> r, status |-> CatchStatus(r),
                    isFatalError |-> isFatalError(build, CatchStatus(r)), done |-> TRUE]
  /\ UNCHANGED <<modeVars, engineVars, backoff, smoothVars, ingestVars, verifyVars, loggerVars, sweepVars, guardVars, headerVars>>

NextClassify == \E r \in Rejections : Classify(r)

ClassifySpec == InitClassify /\ [][NextClassify]_vars

(***************************************************************************)
(* The backoff of work items that fail transiently at every attempt, up    *)
(* to the ceiling: what the dispatcher logs and what the queue applies.    *)
(***************************************************************************)
baseDelay == 5000

\* const nextDelayMs = 5000 * Math.pow(2, job.attemptsMade)
nextDelayMs(attemptsMade) == 5000 * 2^attemptsMade

\* a backoff that grows by the base delay at every attempt
linear(attemptsMade, delay) == attemptsMade * delay

\* backoff: { type: 'exponential', delay }: 5 s, then 10 s, 20 s, 40 s, ...
\* for the attempts made so far, the failed one included
exponential(attemptsMade, delay) == 2^(attemptsMade - 1) * delay

InitBackoff ==
  /\ build \in Builds
  /\ serial = TRUE
  /\ retryBound = attempts
  /\ classified = NotClassified
  /\ backoff = [j \in RetryJobs |-> FreshRetry]
  /\ SmoothAtRest
  /\ HeaderAtRest
  /\ GuardAtRest
  /\ SweepAtRest
  /\ LoggerAtRest
  /\ VerifyAtRest
  /\ IngestAtRest
  /\ InitEngine({})

\* one more attempt of work item j fails transiently: the processor logs
\* nextDelayMs from the attemptsMade it sees and throws; the queue counts the
\* attempt and delays the item by its backoff while attempts are left
FailTransiently(j) ==
  /\ backoff[j].state \in {"waiting", "delayed"}
  /\ LET seen == backoff[j].attemptsMade
         made == seen + 1 IN
       backoff' = [backoff EXCEPT ![j] =
         [attemptsMade |-> made,
          nextDelayMs |-> nextDelayMs(seen),
          delay |-> IF made < attempts THEN exponential(made, baseDelay) ELSE 0,
          previous |-> backoff[j].delay,
          state |-> IF made < attempts THEN "delayed" ELSE "failed"]]
  /\ UNCHANGED <<modeVars, engineVars, classified, smoothVars, ingestVars, verifyVars, loggerVars, sweepVars, guardVars, headerVars>>

NextBackoff == \E j \in RetryJobs : FailTransiently(j)

BackoffSpec == InitBackoff /\ [][NextBackoff]_vars

(***************************************************************************)
(* One event and its work item, from the first attempt to the ceiling of   *)
(* 18 attempts and the 'failed' listener, with no request of the API.      *)
(***************************************************************************)
InitRetry ==
  /\ build \in Builds
  /\ serial = FALSE
  /\ retryBound = attempts
  /\ classified = NotClassified
  /\ backoff = [j \in RetryJobs |-> FreshRetry]
  /\ SmoothAtRest
  /\ HeaderAtRest
  /\ GuardAtRest
  /\ SweepAtRest
  /\ LoggerAtRest
  /\ VerifyAtRest
  /\ IngestAtRest
  /\ isPaused = [d \in Endpoints |-> FALSE]
  /\ epExists = [d \in Endpoints |-> d = "d1"]
  /\ cache = [d \in Endpoints |-> NoCache]
  /\ events = <<[status |-> initialStatus(FALSE), endpointId |-> "d1"]>>
  /\ nextEventId = 2
  /\ jobs = addJob(<<>>, 1)
  /\ attemptLog = [j \in 1..MaxJobs |-> NoEntries]
  /\ attempted = {}
  /\ listener = {}
  /\ api = [a \in Api |-> IdleApi]
  /\ worker = [w \in Workers |-> IdleWorker]
  /\ resumed = {}
  /\ outcome = [a \in Api |-> NoOutcome]

\* worker.on('failed') for a job that is dead: the FAILED update, and the
\* catch that only logs when the update is rejected
FailedListener(j, ok) ==
  /\ j \in listener
  /\ ok => Exists(jobs[j].eventId)
  /\ events' = IF ok THEN [events EXCEPT ![jobs[j].eventId].status = "FAILED"] ELSE events
  /\ listener' = listener \ {j}
  /\ UNCHANGED <<fixed, outcome, isPaused, epExists, cache, nextEventId, jobs,
                 attemptLog, attempted, api, worker, resumed>>

NextRetry ==
  \/ \E w \in Workers : WorkerStep(w)
  \/ \E j \in 1..MaxJobs : PromoteDelayed(j)
  \/ \E j \in 1..MaxJobs : \E ok \in BOOLEAN : FailedListener(j, ok)

\* the queue hands out its jobs, the worker runs, the listener is called
FairRetry ==
  /\ \A w \in Workers : WF_vars(WorkerStep(w))
  /\ \A j \in 1..MaxJobs : WF_vars(PromoteDelayed(j))
  /\ \A j \in 1..MaxJobs : WF_vars(\E ok \in BOOLEAN : FailedListener(j, ok))

RetrySpec == InitRetry /\ [][NextRetry]_vars /\ FairRetry

(***************************************************************************)
(* The traffic smoothing at the head of the processor: the counter of one  *)
(* endpoint and second in Redis, and the pause computed from its value.    *)
(* The keys live 5 s or 60 s, longer than the run lasts: none expires.     *)
(***************************************************************************)
InitSmooth ==
  /\ build \in Builds
  /\ serial = TRUE
  /\ retryBound = MaxRetries
  /\ classified = NotClassified
  /\ backoff = [j \in RetryJobs |-> FreshRetry]
  /\ SmoothAtRest
  /\ HeaderAtRest
  /\ GuardAtRest
  /\ SweepAtRest
  /\ LoggerAtRest
  /\ VerifyAtRest
  /\ IngestAtRest
  /\ InitEngine({})

\* event.endpoint.rateLimit || 5
limit(d) == IF rateLimit[d] # 0 THEN rateLimit[d] ELSE 5

\* a counter that is set, not incremented: two callers may read one value
SETNX(count) == IF count = 0 THEN 1 ELSE count
\* Redis INCR: one atomic increment-and-read (an absent key counts as 0)
INCR(count) == count + 1

\* seconds given to redisClient.expire by each revision
expireSeconds(b) == IF b = "part_006" THEN 60 ELSE 5

windowIndex(currentCount, lim) == (currentCount - 1) \div lim

\* the pause before the outbound call: proportional in part_006, flat in worker.ts
delayMs(b, currentCount, lim) ==
  IF b = "part_006"
  THEN IF windowIndex(currentCount, lim) > 0 THEN windowIndex(currentCount, lim) * 1000 ELSE 0
  ELSE IF currentCount > lim THEN 1000 ELSE 0

RECURSIVE Admitted(_)
Admitted(S) ==
  IF S = {} THEN 0
  ELSE LET k == CHOOSE x \in S : TRUE IN rate[k] + Admitted(S \ {k})

\* const now, const key, await redisClient.incr(key)
SmoothIncr(g, d) ==
  /\ gate[g].pc = "idle"
  /\ Admitted(Keys) < MaxAdmissions
  /\ LET key == <<d, clock>>
         currentCount == INCR(rate[key])
     IN /\ rate' = [rate EXCEPT ![key] = currentCount]
        /\ counts' = [counts EXCEPT ![key] = Append(@, currentCount)]
        /\ gate' = [gate EXCEPT ![g] =
                      [pc |-> IF currentCount = 1 THEN "expire" ELSE "window",
                       key |-> key, currentCount |-> currentCount, delayMs |-> 0]]
  /\ UNCHANGED <<modeVars, engineVars, classified, backoff, clock, ttl, ingestVars, verifyVars, loggerVars, sweepVars, guardVars, headerVars>>

\* if (currentCount === 1) await redisClient.expire(key, ...)
SmoothExpire(g) ==
  /\ gate[g].pc = "expire"
  /\ ttl' = [ttl EXCEPT ![gate[g].key] = expireSeconds(build)]
  /\ gate' = [gate EXCEPT ![g].pc = "window"]
  /\ UNCHANGED <<modeVars, engineVars, classified, backoff, clock, rate, counts, ingestVars, verifyVars, loggerVars, sweepVars, guardVars, headerVars>>

\* the pause is computed and the timer set
SmoothWindow(g) ==
  /\ gate[g].pc = "window"
  /\ gate' = [gate EXCEPT ![g].pc = "post",
                          ![g].delayMs = delayMs(build, gate[g].currentCount, limit(gate[g].key[1]))]
  /\ UNCHANGED <<modeVars, engineVars, classified, backoff, clock, rate, ttl, counts, ingestVars, verifyVars, loggerVars, sweepVars, guardVars, headerVars>>

\* the timer has fired (or there was none): the processor goes on to axios.post
SmoothProceed(g) ==
  /\ gate[g].pc = "post"
  /\ gate' = [gate EXCEPT ![g] = IdleGate]
  /\ UNCHANGED <<modeVars, engineVars, classified, backoff, clock, rate, ttl, counts, ingestVars, verifyVars, loggerVars, sweepVars, guardVars, headerVars>>

\* a second passes
Tick ==
  /\ clock < MaxClock
  /\ clock' = clock + 1
  /\ UNCHANGED <<modeVars, engineVars, classified, backoff, rate, ttl, gate, counts, ingestVars, verifyVars, loggerVars, sweepVars, guardVars, headerVars>>

NextSmooth ==
  \/ \E g \in Gates : \E d \in Endpoints : SmoothIncr(g, d)
  \/ \E g \in Gates : SmoothExpire(g)
  \/ \E g \in Gates : SmoothWindow(g)
  \/ \E g \in Gates : SmoothProceed(g)
  \/ Tick

SmoothSpec == InitSmooth /\ [][NextSmooth]_vars

(***************************************************************************)
(* POST /hooks against endpoint rows of every kind: with or without a      *)
(* secret, of each provider, active or not, d2 as registered by default.   *)
(* The answers are recorded; requests run one at a time, with pause,       *)
(* resume, deletion and the expiry of the cache; no dispatcher runs.       *)
(***************************************************************************)
InitIngest ==
  /\ build = "part_006"
  /\ serial = TRUE
  /\ retryBound = MaxRetries
  /\ classified = NotClassified
  /\ backoff = [j \in RetryJobs |-> FreshRetry]
  /\ SmoothAtRest
  /\ HeaderAtRest
  /\ GuardAtRest
  /\ SweepAtRest
  /\ LoggerAtRest
  /\ VerifyAtRest
  /\ \E r \in Rows : row = [DefaultRows EXCEPT !["d1"] = r]
  /\ observe = TRUE
  /\ InitEngine(Endpoints)

NextIngest ==
  \/ \E a \in Api : \E d \in Endpoints : IngestCacheGet(a, d)
  \/ \E a \in Api : IngestFindEndpoint(a)
  \/ \E a \in Api : IngestCacheSet(a)
  \/ \E a \in Api : IngestVerify(a)
  \/ \E a \in Api : IngestCreate(a)
  \/ \E a \in Api : IngestAddJob(a)
  \/ \E a \in Api : \E d \in Endpoints : ToggleFind(a, d)
  \/ \E a \in Api : ToggleUpdateEndpoint(a)
  \/ \E a \in Api : ToggleFindPaused(a)
  \/ \E a \in Api : ToggleUpdateMany(a)
  \/ \E a \in Api : ToggleAddJobsBulk(a)
  \/ \E a \in Api : ToggleReply(a)
  \/ \E d \in Endpoints : CacheExpire(d)
  \/ \E d \in Endpoints : DeleteEndpoint(d)

IngestSpec == InitIngest /\ [][NextIngest]_vars

(***************************************************************************)
(* StripeVerifier.verify as a function of the stripe-signature header, the *)
(* secret, the raw body and the clock.  A string is a sequence of pieces:  *)
(* single characters, runs of digits, and the 64 hex digits of one HMAC.   *)
(* HMAC-SHA256 is taken as free of collisions.                             *)
(***************************************************************************)
Chr(c) == [kind |-> "chr", c |-> c, n |-> 0, key |-> "", body |-> "", text |-> <<>>]
Num(n) == [kind |-> "num", c |-> "", n |-> n, key |-> "", body |-> "", text |-> <<>>]
\* crypto.createHmac('sha256', secret).update(`${timestamp}.${rawBody}`).digest('hex')
digest(secret, timestamp, rawBody) ==
  [kind |-> "hex", c |-> "", n |-> 0, key |-> secret, body |-> rawBody, text |-> timestamp]

\* bytes of one piece, and of a string
PieceLength(p) == IF p.kind = "hex" THEN 64 ELSE IF p.kind = "num" THEN 3 ELSE 1
RECURSIVE byteLength(_)
byteLength(s) == IF s = <<>> THEN 0 ELSE PieceLength(Head(s)) + byteLength(Tail(s))

\* String.prototype.split(sep) for a one-character separator
RECURSIVE split(_, _)
split(s, sep) ==
  IF s = <<>> THEN <<(<<>>)>>
  ELSE LET rest == split(Tail(s), sep)
       IN IF Head(s) = Chr(sep) THEN <<(<<>>)>> \o rest
          ELSE <<(<<Head(s)>> \o Head(rest))>> \o Tail(rest)

startsWith(s, prefix) ==
  Len(s) >= Len(prefix) /\ SubSeq(s, 1, Len(prefix)) = prefix

\* Array.prototype.find: the first part with the prefix, 0 for undefined
find(parts, prefix) ==
  IF \E i \in DOMAIN parts : startsWith(parts[i], prefix)
  THEN CHOOSE i \in DOMAIN parts :
         /\ startsWith(parts[i], prefix)
         /\ \A j \in 1..(i - 1) : ~startsWith(parts[j], prefix)
  ELSE 0

\* parseInt(s, 10): the leading digits, NaN when there are none
NaN == [nan |-> TRUE, n |-> 0]
parseInt(s) ==
  IF s # <<>> /\ Head(s).kind = "num" THEN [nan |-> FALSE, n |-> Head(s).n] ELSE NaN

\* crypto.timingSafeEqual inside try/catch: it throws on buffers of different length
timingSafeEqual(a, b) == byteLength(a) = byteLength(b) /\ a = b

TOLERANCE == 300

\* header: "absent", "array" (a repeated header) or "string", then text holds it
verifyStripe(header, text, secret, rawBody, now) ==
  IF header # "string" \/ text = <<>> THEN FALSE
  ELSE LET parts == split(text, ",")
           timestampPart == find(parts, <<Chr("t"), Chr("=")>>)
           signaturePart == find(parts, <<Chr("v1"), Chr("=")>>)
       IN IF timestampPart = 0 \/ signaturePart = 0 THEN FALSE
          ELSE LET timestamp == split(parts[timestampPart], "=")[2]
                   signature == split(parts[signaturePart], "=")[2]
                   timestampTol == parseInt(timestamp)
               IN IF ~timestampTol.nan /\ now - timestampTol.n > TOLERANCE THEN FALSE
                  ELSE timingSafeEqual(signature, <<digest(secret, timestamp, rawBody)>>)

\* the elements a stripe-signature header is written from: key, '=' or not, value
Secrets == {"k1", "k2"}
Bodies == {"b1", "b2"}
Times == {100, 400}
Digests == {digest(k, <<Num(n)>>, b) : k \in Secrets, n \in Times, b \in Bodies}
             \cup {digest("k1", <<Chr("x")>>, "b1")}
Element(key, eq, value) == [key |-> key, eq |-> eq, value |-> value]
Elements ==
  {Element("t", TRUE, <<Num(n)>>) : n \in Times}
    \cup {Element("t", TRUE, <<Chr("x")>>), Element("t", FALSE, <<>>),
          Element("x", TRUE, <<Chr("x")>>), Element("v1", TRUE, <<>>)}
    \cup {Element("v1", TRUE, <<h>>) : h \in Digests}
    \cup {Element("v1", TRUE, <<digest("k1", <<Num(n)>>, "b1"), Chr("="), Chr("x")>>) : n \in Times}

\* "key=value,key=value": the header as sent
ElementText(e) == <<Chr(e.key)>> \o (IF e.eq THEN <<Chr("=")>> \o e.value ELSE <<>>)
RECURSIVE join(_)
join(es) ==
  IF es = <<>> THEN <<>>
  ELSE IF Len(es) = 1 THEN ElementText(es[1])
  ELSE ElementText(es[1]) \o <<Chr(",")>> \o join(Tail(es))

Headers == UNION {[1..n -> Elements] : n \in 0..MaxElements}

InitVerify ==
  /\ build = "part_006"
  /\ serial = TRUE
  /\ retryBound = MaxRetries
  /\ classified = NotClassified
  /\ backoff = [j \in RetryJobs |-> FreshRetry]
  /\ SmoothAtRest
  /\ HeaderAtRest
  /\ GuardAtRest
  /\ SweepAtRest
  /\ LoggerAtRest
  /\ IngestAtRest
  /\ VerifyAtRest
  /\ InitEngine({})

\* one call with a string header, written from `fields`
VerifyString ==
  /\ ~verified.done
  /\ \E fields \in Headers : \E rawBody \in Bodies : \E now \in {400, 401, 800} :
       verified' = [fields |-> fields, header |-> "string", text |-> join(fields),
                    secret |-> "k1", rawBody |-> rawBody, now |-> now,
                    result |-> verifyStripe("string", join(fields), "k1", rawBody, now),
                    done |-> TRUE]
  /\ UNCHANGED <<modeVars, engineVars, classified, backoff, smoothVars, ingestVars, loggerVars, sweepVars, guardVars, headerVars>>

\* one call without the header, or with the header sent twice
VerifyOther ==
  /\ ~verified.done
  /\ \E header \in {"absent", "array"} :
       verified' = [NotVerified EXCEPT !.header = header, !.secret = "k1",
                                       !.rawBody = "b1", !.now = 400,
                                       !.result = verifyStripe(header, <<>>, "k1", "b1", 400),
                                       !.done = TRUE]
  /\ UNCHANGED <<modeVars, engineVars, classified, backoff, smoothVars, ingestVars, loggerVars, sweepVars, guardVars, headerVars>>

NextVerify == VerifyString \/ VerifyOther

VerifySpec == InitVerify /\ [][NextVerify]_vars

(***************************************************************************)
(* BatchLogger alone: add, the flush of a full buffer, of the timer and of *)
(* the shutdown, and the bulk writes in progress.  Entries are numbered in *)
(* the order of the add calls.                                             *)
(***************************************************************************)
InitLogger ==
  /\ build = "part_006"
  /\ serial = TRUE
  /\ retryBound = MaxRetries
  /\ classified = NotClassified
  /\ backoff = [j \in RetryJobs |-> FreshRetry]
  /\ SmoothAtRest
  /\ HeaderAtRest
  /\ GuardAtRest
  /\ SweepAtRest
  /\ IngestAtRest
  /\ VerifyAtRest
  /\ LoggerAtRest
  /\ InitEngine({})

\* a flush that leaves the buffer as it is
keepBuffer(buf) == buf
\* this.buffer = [] after the copy
clearBuffer(buf) == <<>>

\* flush() up to its await: copy, clear, prisma.deliveryAttempt.createMany
flush(buf) ==
  IF Len(buf) = 0
  THEN [buffer |-> buf, createMany |-> createMany, handed |-> handed]
  ELSE [buffer |-> clearBuffer(buf),
        createMany |-> createMany \cup {Len(handed) + 1},
        handed |-> Append(handed, buf)]

\* add(entry): push, and flush when the buffer has reached BATCH_SIZE
addEntry(buf, entry) ==
  LET pushed == Append(buf, entry)
  IN IF Len(pushed) >= BATCH_SIZE THEN flush(pushed)
     ELSE [buffer |-> pushed, createMany |-> createMany, handed |-> handed]

\* batchLogger.add called by some dispatch attempt
BatchAdd ==
  /\ proc # "exited"
  /\ added < MaxEntries
  /\ added' = added + 1
  /\ buffer' = addEntry(buffer, added + 1).buffer
  /\ createMany' = addEntry(buffer, added + 1).createMany
  /\ handed' = addEntry(buffer, added + 1).handed
  /\ UNCHANGED <<modeVars, engineVars, classified, backoff, smoothVars, ingestVars, verifyVars,
                 stored, failedWrites, unhandled, proc, awaited, active, sweepVars, guardVars, headerVars>>

\* setInterval(() => this.flush(), FLUSH_INTERVAL)
Flush ==
  /\ proc # "exited"
  /\ buffer' = flush(buffer).buffer
  /\ createMany' = flush(buffer).createMany
  /\ handed' = flush(buffer).handed
  /\ UNCHANGED <<modeVars, engineVars, classified, backoff, smoothVars, ingestVars, verifyVars,
                 added, stored, failedWrites, unhandled, proc, awaited, active, sweepVars, guardVars, headerVars>>

Entries(c) == {handed[c][i] : i \in DOMAIN handed[c]}

\* a flush without its try/catch
rethrown(c, ok) == IF ok THEN {} ELSE {c}
\* catch (err) { console.error(...) }: the promise of flush() is never rejected
escaped(c, ok) == {}

\* one createMany settles: the rows are stored, or the error is logged
CreateManySettles(c, ok) ==
  /\ proc # "exited"
  /\ c \in createMany
  /\ createMany' = createMany \ {c}
  /\ stored' = IF ok THEN stored \cup Entries(c) ELSE stored
  /\ failedWrites' = IF ok THEN failedWrites ELSE failedWrites \cup {c}
  /\ unhandled' = unhandled \cup escaped(c, ok)
  /\ UNCHANGED <<modeVars, engineVars, classified, backoff, smoothVars, ingestVars, verifyVars,
                 buffer, handed, added, proc, awaited, active, sweepVars, guardVars, headerVars>>

NextLogger ==
  \/ BatchAdd
  \/ Flush
  \/ \E c \in 1..MaxEntries : \E ok \in BOOLEAN : CreateManySettles(c, ok)

LoggerSpec == InitLogger /\ [][NextLogger]_vars

\* the timer keeps firing and every createMany call settles
FairLogger ==
  /\ WF_vars(Flush)
  /\ \A c \in 1..MaxEntries : WF_vars(\E ok \in BOOLEAN : CreateManySettles(c, ok))

LoggerFairSpec == InitLogger /\ [][NextLogger]_vars /\ FairLogger

(***************************************************************************)
(* The worker process from its start to the exit of its SIGINT handler:    *)
(* await batchLogger.flush(); await worker.close(); process.exit(0).       *)
(***************************************************************************)
\* the worker takes a job (not after worker.close() was called)
StartAttempt ==
  /\ proc \in {"running", "flushing"}
  /\ active < MaxActive
  /\ added + active < MaxEntries
  /\ active' = active + 1
  /\ UNCHANGED <<modeVars, engineVars, classified, backoff, smoothVars, ingestVars, verifyVars,
                 buffer, createMany, handed, added, stored, failedWrites, unhandled,
                 proc, awaited, sweepVars, guardVars, headerVars>>

\* an attempt in flight gets its answer, calls batchLogger.add and finishes
AttemptRecords ==
  /\ proc # "exited"
  /\ active > 0
  /\ active' = active - 1
  /\ added' = added + 1
  /\ buffer' = addEntry(buffer, added + 1).buffer
  /\ createMany' = addEntry(buffer, added + 1).createMany
  /\ handed' = addEntry(buffer, added + 1).handed
  /\ UNCHANGED <<modeVars, engineVars, classified, backoff, smoothVars, ingestVars, verifyVars,
                 stored, failedWrites, unhandled, proc, awaited, sweepVars, guardVars, headerVars>>

\* SIGINT: the handler calls batchLogger.flush() and awaits it
Sigint ==
  /\ proc = "running"
  /\ buffer' = flush(buffer).buffer
  /\ createMany' = flush(buffer).createMany
  /\ handed' = flush(buffer).handed
  /\ awaited' = IF Len(buffer) = 0 THEN 0 ELSE Len(handed) + 1
  /\ proc' = "flushing"
  /\ UNCHANGED <<modeVars, engineVars, classified, backoff, smoothVars, ingestVars, verifyVars,
                 added, stored, failedWrites, unhandled, active, sweepVars, guardVars, headerVars>>

\* the awaited flush is over: worker.close() is called
WorkerClose ==
  /\ proc = "flushing"
  /\ awaited \notin createMany
  /\ proc' = "closing"
  /\ UNCHANGED <<modeVars, engineVars, classified, backoff, smoothVars, ingestVars, verifyVars,
                 buffer, createMany, handed, added, stored, failedWrites, unhandled,
                 awaited, active, sweepVars, guardVars, headerVars>>

\* worker.close() resolves once no attempt is in flight: process.exit(0)
ProcessExit ==
  /\ proc = "closing"
  /\ active = 0
  /\ proc' = "exited"
  /\ UNCHANGED <<modeVars, engineVars, classified, backoff, smoothVars, ingestVars, verifyVars,
                 buffer, createMany, handed, added, stored, failedWrites, unhandled,
                 awaited, active, sweepVars, guardVars, headerVars>>

NextShutdown ==
  \/ StartAttempt
  \/ AttemptRecords
  \/ Flush
  \/ \E c \in 1..MaxEntries : \E ok \in BOOLEAN : CreateManySettles(c, ok)
  \/ Sigint
  \/ WorkerClose
  \/ ProcessExit

ShutdownSpec == InitLogger /\ [][NextShutdown]_vars

(***************************************************************************)
(* CleanupService.runCleanup over a store that holds MaxRows event rows,   *)
(* while events are replayed and endpoints are deleted, one such request   *)
(* at a time; the steps of the sweep fall between their steps unless the   *)
(* sweep runs alone.  The dispatcher does not run.                         *)
(***************************************************************************)
RETENTION_DAYS == 7
\* the day of the sweep, and the days on which the rows were received
Today == 10
Days == {2, 3}
cutoffDate == Today - RETENTION_DAYS

\* the last row belongs to d2, the others to d1
OwnerOfRow(e) == IF e < MaxRows THEN "d1" ELSE "d2"

InitSweep ==
  /\ build = "part_006"
  /\ serial = TRUE
  /\ retryBound = MaxRetries
  /\ classified = NotClassified
  /\ backoff = [j \in RetryJobs |-> FreshRetry]
  /\ SmoothAtRest
  /\ HeaderAtRest
  /\ GuardAtRest
  /\ LoggerAtRest
  /\ VerifyAtRest
  /\ IngestAtRest
  /\ \E st \in [1..MaxRows -> {"COMPLETED", "FAILED", "PAUSED"}] :
       events = [e \in 1..MaxRows |-> [status |-> st[e], endpointId |-> OwnerOfRow(e)]]
  /\ isPaused = [d \in Endpoints |-> \E e \in EventsOf(d) : events[e].status = "PAUSED"]
  /\ epExists = [d \in Endpoints |-> TRUE]
  /\ cache = [d \in Endpoints |-> NoCache]
  /\ nextEventId = MaxRows + 1
  /\ jobs = <<>>
  /\ attemptLog = [j \in 1..MaxJobs |-> NoEntries]
  /\ attempted = {e \in DOMAIN events : events[e].status \in {"COMPLETED", "FAILED"}}
  /\ listener = {}
  /\ api = [a \in Api |-> IdleApi]
  /\ worker = [w \in Workers |-> IdleWorker]
  /\ resumed = {}
  /\ outcome = [a \in Api |-> NoOutcome]
  /\ alone \in BOOLEAN
  /\ receivedAt \in [1..MaxRows -> Days]
  /\ archivedSuccessCount = [d \in Endpoints |-> 0]
  /\ cleanup = IdleCleanup
  /\ before = <<>>
  /\ archivedBy = [d \in Endpoints |-> 0]
  /\ deletedBy = [d \in Endpoints |-> {}]

\* a deleteMany that drops the status from its filter
oldOfAnyStatus(d) == {e \in EventsOf(d) : receivedAt[e] < cutoffDate}
\* where: { endpointId, status: 'COMPLETED', receivedAt: { lt: cutoffDate } }
oldCompleted(d) ==
  {e \in EventsOf(d) : events[e].status = "COMPLETED" /\ receivedAt[e] < cutoffDate}

\* 1. groupBy endpointId with _count, over the old COMPLETED rows
SweepGroupBy ==
  /\ cleanup.pc = "idle"
  /\ alone => OthersIdle("cleanup")
  /\ LET eventsToArchive ==
           [d \in {x \in Endpoints : oldCompleted(x) # {}} |-> Cardinality(oldCompleted(d))]
     IN cleanup' = [pc |-> IF DOMAIN eventsToArchive = {} THEN "done" ELSE "loop",
                    groups |-> eventsToArchive]
  /\ before' = events
  /\ UNCHANGED <<modeVars, engineVars, classified, backoff, smoothVars, ingestVars, verifyVars,
                 loggerVars, guardVars, headerVars, alone, receivedAt, archivedSuccessCount,
                 archivedBy, deletedBy>>

\* 2. for one group: $transaction([endpoint.update increment, deleteMany]);
\* the update rejects when the endpoint row is gone, nothing is committed and
\* the catch ends the sweep
SweepTransaction(d) ==
  /\ cleanup.pc = "loop"
  /\ d \in DOMAIN cleanup.groups
  /\ IF epExists[d]
     THEN /\ archivedSuccessCount' = [archivedSuccessCount EXCEPT ![d] = @ + cleanup.groups[d]]
          /\ archivedBy' = [archivedBy EXCEPT ![d] = @ + cleanup.groups[d]]
          /\ events' = [e \in DOMAIN events \ oldCompleted(d) |-> events[e]]
          /\ attempted' = attempted \ oldCompleted(d)
          /\ deletedBy' = [deletedBy EXCEPT ![d] = @ \cup oldCompleted(d)]
          /\ LET rest == [x \in DOMAIN cleanup.groups \ {d} |-> cleanup.groups[x]]
             IN cleanup' = [pc |-> IF DOMAIN rest = {} THEN "done" ELSE "loop", groups |-> rest]
     ELSE /\ cleanup' = [cleanup EXCEPT !.pc = "failed"]
          /\ UNCHANGED <<archivedSuccessCount, archivedBy, events, attempted, deletedBy>>
  /\ UNCHANGED <<modeVars, classified, backoff, smoothVars, ingestVars, verifyVars, loggerVars,
                 guardVars, headerVars, alone, receivedAt, before, isPaused, epExists, cache,
                 nextEventId, jobs, attemptLog, listener, api, worker, resumed, outcome>>

\* the process stops between two transactions
SweepInterrupted ==
  /\ cleanup.pc = "loop"
  /\ cleanup' = [cleanup EXCEPT !.pc = "interrupted"]
  /\ UNCHANGED <<modeVars, engineVars, classified, backoff, smoothVars, ingestVars, verifyVars,
                 loggerVars, guardVars, headerVars, alone, receivedAt, archivedSuccessCount,
                 before, archivedBy, deletedBy>>

NextSweep ==
  \/ SweepGroupBy
  \/ \E d \in Endpoints : SweepTransaction(d)
  \/ SweepInterrupted
  \/ \E a \in Api : \E e \in 1..MaxRows : ReplayFind(a, e)
  \/ \E a \in Api : ReplayUpdate(a)
  \/ \E a \in Api : ReplayAddJob(a)
  \/ \E d \in Endpoints : DeleteEndpoint(d)

SweepSpec == InitSweep /\ [][NextSweep]_vars

(***************************************************************************)
(* The target address guard, isSafeUrl, and the two requests that store a  *)
(* target address: POST /endpoints and PUT /endpoints/:id.  A target is    *)
(* read as new URL() reads it, its host name is resolved by a fixed table  *)
(* of names and literal addresses, and the address is classified as        *)
(* ipaddr.js classifies it: the first special range, in the order of the   *)
(* library's tables, whose prefix matches, and "unicast" when none does.   *)
(***************************************************************************)
\* a string new URL() rejects, and a body without targetUrl
Unparsable == [protocol |-> "unparsable", hostname |-> "unparsable"]
Undefined == [protocol |-> "undefined", hostname |-> "undefined"]

Protocols == {"http:", "https:", "ftp:"}

IPv4(a, b, c, d) == [kind |-> "ipv4", parts |-> <<a, b, c, d>>]
IPv6(a, b, h) == [kind |-> "ipv6", parts |-> <<a, b, 0, 0, 0, 0, 0, h>>]

\* what dns.lookup answers for each host name; a name outside the table
\* does not resolve
Resolves ==
  [h \in {"93.184.216.34", "10.0.0.5", "172.16.0.1", "192.168.1.1", "127.0.0.1",
          "169.254.169.254", "100.64.0.1", "0.0.0.0", "255.255.255.255",
          "224.0.0.1", "240.0.0.1", "ula.example", "v6.example"} |->
     CASE h = "93.184.216.34"   -> IPv4(93, 184, 216, 34)
       [] h = "10.0.0.5"        -> IPv4(10, 0, 0, 5)
       [] h = "172.16.0.1"      -> IPv4(172, 16, 0, 1)
       [] h = "192.168.1.1"     -> IPv4(192, 168, 1, 1)
       [] h = "127.0.0.1"       -> IPv4(127, 0, 0, 1)
       [] h = "169.254.169.254" -> IPv4(169, 254, 169, 254)
       [] h = "100.64.0.1"      -> IPv4(100, 64, 0, 1)
       [] h = "0.0.0.0"         -> IPv4(0, 0, 0, 0)
       [] h = "255.255.255.255" -> IPv4(255, 255, 255, 255)
       [] h = "224.0.0.1"       -> IPv4(224, 0, 0, 1)
       [] h = "240.0.0.1"       -> IPv4(240, 0, 0, 1)
       [] h = "ula.example"     -> IPv6(64768, 0, 1)
       [] h = "v6.example"      -> IPv6(9734, 10240, 1)]
Hostnames == DOMAIN Resolves \cup {"nx.example"}

Targets == {Unparsable} \cup [protocol : Protocols, hostname : Hostnames]

\* x >> shift
ShiftRight(x, shift) == x \div (2 ^ shift)

\* ipaddr.js matchCIDR: the first cidrBits bits of the two part lists agree
RECURSIVE matchCIDR(_, _, _, _, _)
matchCIDR(first, second, partSize, cidrBits, part) ==
  IF cidrBits <= 0 THEN TRUE
  ELSE LET shift == IF partSize - cidrBits < 0 THEN 0 ELSE partSize - cidrBits IN
         IF ShiftRight(first[part], shift) # ShiftRight(second[part], shift) THEN FALSE
         ELSE matchCIDR(first, second, partSize, cidrBits - partSize, part + 1)

Range(name, parts, bits) == [name |-> name, parts |-> parts, bits |-> bits]

\* ipaddr.js IPv4.prototype.SpecialRanges, in the order of the table
SpecialRangesIPv4 ==
  << Range("unspecified", <<0, 0, 0, 0>>, 8),
     Range("broadcast", <<255, 255, 255, 255>>, 32),
     Range("multicast", <<224, 0, 0, 0>>, 4),
     Range("linkLocal", <<169, 254, 0, 0>>, 16),
     Range("loopback", <<127, 0, 0, 0>>, 8),
     Range("carrierGradeNat", <<100, 64, 0, 0>>, 10),
     Range("private", <<10, 0, 0, 0>>, 8),
     Range("private", <<172, 16, 0, 0>>, 12),
     Range("private", <<192, 168, 0, 0>>, 16),
     Range("reserved", <<192, 0, 0, 0>>, 24),
     Range("reserved", <<192, 0, 2, 0>>, 24),
     Range("reserved", <<192, 88, 99, 0>>, 24),
     Range("reserved", <<198, 18, 0, 0>>, 15),
     Range("reserved", <<198, 51, 100, 0>>, 24),
     Range("reserved", <<203, 0, 113, 0>>, 24),
     Range("reserved", <<240, 0, 0, 0>>, 4) >>

\* ipaddr.js IPv6.prototype.SpecialRanges, in the order of the table
SpecialRangesIPv6 ==
  << Range("unspecified", <<0, 0, 0, 0, 0, 0, 0, 0>>, 128),
     Range("linkLocal", <<65152, 0, 0, 0, 0, 0, 0, 0>>, 10),
     Range("multicast", <<65280, 0, 0, 0, 0, 0, 0, 0>>, 8),
     Range("loopback", <<0, 0, 0, 0, 0, 0, 0, 1>>, 128),
     Range("uniqueLocal", <<64512, 0, 0, 0, 0, 0, 0, 0>>, 7),
     Range("ipv4Mapped", <<0, 0, 0, 0, 0, 65535, 0, 0>>, 96),
     Range("rfc6145", <<0, 0, 0, 0, 65535, 0, 0, 0>>, 96),
     Range("rfc6052", <<100, 65435, 0, 0, 0, 0, 0, 0>>, 96),
     Range("6to4", <<8194, 0, 0, 0, 0, 0, 0, 0>>, 16),
     Range("teredo", <<8193, 0, 0, 0, 0, 0, 0, 0>>, 32),
     Range("reserved", <<8193, 3512, 0, 0, 0, 0, 0, 0>>, 32) >>

\* ipaddr.js subnetMatch: the name of the first range that matches
RECURSIVE subnetMatch(_, _, _, _)
subnetMatch(ip, rangeList, partSize, i) ==
  IF i > Len(rangeList) THEN "unicast"
  ELSE IF matchCIDR(ip.parts, rangeList[i].parts, partSize, rangeList[i].bits, 1)
       THEN rangeList[i].name
       ELSE subnetMatch(ip, rangeList, partSize, i + 1)

\* ip.range()
range(ip) ==
  IF ip.kind = "ipv4" THEN subnetMatch(ip, SpecialRangesIPv4, 8, 1)
  ELSE subnetMatch(ip, SpecialRangesIPv6, 16, 1)

\* const blockedRanges = [ ... ]
blockedRanges == {"unicast", "loopback", "linkLocal", "private", "carrierGradeNat"}

\* new URL(targetUrl) throws
URLThrows(t) == t \in {Unparsable, Undefined}

\* isSafeUrl: every exception is caught and answered with false
isSafeUrl(t) ==
  IF URLThrows(t) THEN FALSE
  ELSE IF t.protocol \notin {"http:", "https:"} THEN FALSE
  ELSE IF t.hostname \notin DOMAIN Resolves THEN FALSE
  ELSE range(Resolves[t.hostname]) \notin blockedRanges

InitGuard ==
  /\ build = "part_006"
  /\ serial = TRUE
  /\ retryBound = MaxRetries
  /\ classified = NotClassified
  /\ backoff = [j \in RetryJobs |-> FreshRetry]
  /\ SmoothAtRest
  /\ HeaderAtRest
  /\ GuardAtRest
  /\ SweepAtRest
  /\ IngestAtRest
  /\ VerifyAtRest
  /\ LoggerAtRest
  /\ InitEngine({})

\* the endpoints that were created
Created == {d \in Endpoints : targetUrl[d] # NoTarget}

\* POST /endpoints: 400 when the guard refuses the target or the name is
\* missing, 500 when the store rejects the row, else the row is created
CreateEndpoint ==
  /\ Created # Endpoints
  /\ \E t \in Targets \cup {Undefined}, named \in BOOLEAN, ok \in BOOLEAN :
       LET safe == isSafeUrl(t)
           d == CHOOSE x \in Endpoints \ Created : TRUE
           status == IF ~safe \/ ~named \/ t = Undefined THEN 400
                     ELSE IF ~ok THEN 500 ELSE 200
       IN /\ targetUrl' = IF status = 200 THEN [targetUrl EXCEPT ![d] = t] ELSE targetUrl
          /\ request' = [route |-> "POST /endpoints", targetUrl |-> t,
                         safe |-> IF safe THEN "true" ELSE "false", status |-> status]
  /\ UNCHANGED <<modeVars, engineVars, classified, backoff, smoothVars, ingestVars,
                 verifyVars, loggerVars, sweepVars, headerVars>>

\* PUT /endpoints/:id: 404 when the endpoint is not found, else the row is
\* updated with the fields of the body; a field that is undefined is left
EditEndpoint(d) ==
  /\ d \in Created
  /\ \E t \in Targets \cup {Undefined} :
       /\ targetUrl' = IF t = Undefined THEN targetUrl ELSE [targetUrl EXCEPT ![d] = t]
       /\ request' = [route |-> "PUT /endpoints/:id", targetUrl |-> t,
                      safe |-> "not called", status |-> 200]
  /\ UNCHANGED <<modeVars, engineVars, classified, backoff, smoothVars, ingestVars,
                 verifyVars, loggerVars, sweepVars, headerVars>>

\* DELETE /endpoints/:id
RemoveEndpoint(d) ==
  /\ d \in Created
  /\ targetUrl' = [targetUrl EXCEPT ![d] = NoTarget]
  /\ request' = NoRequest
  /\ UNCHANGED <<modeVars, engineVars, classified, backoff, smoothVars, ingestVars,
                 verifyVars, loggerVars, sweepVars, headerVars>>

NextGuard ==
  \/ CreateEndpoint
  \/ \E d \in Endpoints : EditEndpoint(d)
  \/ \E d \in Endpoints : RemoveEndpoint(d)

GuardSpec == InitGuard /\ [][NextGuard]_vars

(***************************************************************************)
(* The headers of one outbound delivery.  The event's stored headers are   *)
(* an object with lower-case keys, as Node delivers request.headers; the   *)
(* request's headers are the object literal handed to axios.post.          *)
(***************************************************************************)
HeaderNames ==
  {"host", "content-length", "connection", "accept-encoding", "content-type",
   "user-agent", "x-signature"}
HeaderValues == {"v1", "v2"}

\* every object with keys of HeaderNames
StoredHeaders == UNION {[ks -> HeaderValues] : ks \in SUBSET HeaderNames}

InitHeader ==
  /\ build \in Builds
  /\ serial = TRUE
  /\ retryBound = MaxRetries
  /\ classified = NotClassified
  /\ backoff = [j \in RetryJobs |-> FreshRetry]
  /\ SmoothAtRest
  /\ GuardAtRest
  /\ SweepAtRest
  /\ IngestAtRest
  /\ VerifyAtRest
  /\ LoggerAtRest
  /\ InitEngine({})
  /\ headers \in StoredHeaders
  /\ posted = NoHeaders

\* delete obj[key]
delete(obj, key) == [k \in DOMAIN obj \ {key} |-> obj[k]]

\* { ...first, ...second }
spread(first, second) ==
  [k \in DOMAIN first \cup DOMAIN second |->
     IF k \in DOMAIN second THEN second[k] ELSE first[k]]

\* the headers the dispatcher adds to those of the event
OwnHeaders ==
  [k \in {"Content-Type", "X-Webhook-Buffer-ID"} |->
     IF k = "Content-Type" THEN "application/json" ELSE "event.id"]

\* part_006: the copy of event.headers after the four deletes
forwardedHeaders(h) ==
  delete(delete(delete(delete(h, "host"), "content-length"), "connection"),
         "accept-encoding")

\* the headers option of axios.post, in either revision of the dispatcher
requestHeaders(h) ==
  IF build = "part_006" THEN spread(OwnHeaders, forwardedHeaders(h))
  ELSE spread(OwnHeaders, h)

\* axios.post(targetUrl, payload, { headers, timeout: 5000 })
AxiosPost ==
  /\ ~posted.sent
  /\ posted' = [sent |-> TRUE, headers |-> requestHeaders(headers)]
  /\ UNCHANGED <<modeVars, engineVars, classified, backoff, smoothVars, ingestVars,
                 verifyVars, loggerVars, sweepVars, guardVars, headers>>

NextHeader == AxiosPost

HeaderSpec == InitHeader /\ [][NextHeader]_vars

(***************************************************************************)
(* Replay of an event that failed.  The event row is FAILED and its work   *)
(* item is either gone from the queue, after a fatal response, or dead in  *)
(* it, after its last attempt.  The event is replayed, one request at a    *)
(* time, the dispatcher delivers the new work item, and the event fails    *)
(* again by a fatal response or by exhausting its attempts.                *)
(***************************************************************************)
InitReplay ==
  /\ build \in Builds
  /\ serial = TRUE
  /\ retryBound = attempts
  /\ classified = NotClassified
  /\ backoff = [j \in RetryJobs |-> FreshRetry]
  /\ SmoothAtRest
  /\ HeaderAtRest
  /\ GuardAtRest
  /\ SweepAtRest
  /\ LoggerAtRest
  /\ VerifyAtRest
  /\ IngestAtRest
  /\ isPaused \in [Endpoints -> BOOLEAN]
  /\ epExists = [d \in Endpoints |-> TRUE]
  /\ cache = [d \in Endpoints |-> NoCache]
  /\ events = <<[status |-> "FAILED", endpointId |-> "d1"]>>
  /\ nextEventId = 2
  /\ jobs \in {<<Removed>>, <<[eventId |-> 1, attemptsMade |-> attempts, state |-> "failed"]>>}
  /\ attemptLog = [j \in 1..MaxJobs |-> NoEntries]
  /\ attempted = {1}
  /\ listener = {}
  /\ api = [a \in Api |-> IdleApi]
  /\ worker = [w \in Workers |-> IdleWorker]
  /\ resumed = {}
  /\ outcome = [a \in Api |-> NoOutcome]

NextReplay ==
  \/ \E a \in Api : \E e \in 1..MaxEvents : ReplayFind(a, e)
  \/ \E a \in Api : ReplayUpdate(a)
  \/ \E a \in Api : ReplayAddJob(a)
  \/ \E w \in Workers : WorkerStep(w)
  \/ \E j \in 1..MaxJobs : PromoteDelayed(j)
  \/ \E j \in 1..MaxJobs : \E ok \in BOOLEAN : FailedListener(j, ok)

ReplaySpec == InitReplay /\ [][NextReplay]_vars

(***************************************************************************)
(* The processor from the hand-over of a work item to the outbound call:   *)
(* the event lookup and the rate counter, followed by the steps of the     *)
(* dispatcher above.  Endpoints are deleted, with their events, while work *)
(* items of those events wait in the queue.                                *)
(***************************************************************************)
InitLookup ==
  /\ build \in Builds
  /\ serial = TRUE
  /\ retryBound = MaxRetries
  /\ classified = NotClassified
  /\ backoff = [j \in RetryJobs |-> FreshRetry]
  /\ SmoothAtRest
  /\ HeaderAtRest
  /\ GuardAtRest
  /\ SweepAtRest
  /\ LoggerAtRest
  /\ VerifyAtRest
  /\ IngestAtRest
  /\ isPaused = [d \in Endpoints |-> FALSE]
  /\ epExists = [d \in Endpoints |-> TRUE]
  /\ cache = [d \in Endpoints |-> NoCache]
  /\ \E owner \in [1..MaxEvents -> Endpoints] :
       events = [e \in 1..MaxEvents |-> [status |-> "PENDING", endpointId |-> owner[e]]]
  /\ nextEventId = MaxEvents + 1
  /\ jobs = [j \in 1..MaxJobs |-> NewJob(j)]
  /\ attemptLog = [j \in 1..MaxJobs |-> NoEntries]
  /\ attempted = {}
  /\ listener = {}
  /\ api = [a \in Api |-> IdleApi]
  /\ worker = [w \in Workers |-> IdleWorker]
  /\ resumed = {}
  /\ outcome = [a \in Api |-> NoOutcome]

\* a processor that goes on without an event
NeverMissing(e) == FALSE
\* if (!event) return;
Missing(e) == ~Exists(e)

\* prisma.webhookEvent.findUnique({ where: { id: eventId }, include: { endpoint: true } })
\* and the return when there is no such event, which completes the job
ProcessorFindEvent(w, j) ==
  /\ worker[w].pc = "idle" /\ MayStart(w)
  /\ j \in DOMAIN jobs /\ jobs[j].state = "waiting"
  /\ IF Missing(jobs[j].eventId)
     THEN /\ jobs' = MoveToCompleted(jobs, j)
          /\ attemptLog' = [attemptLog EXCEPT ![j] = NoEntries]
          /\ UNCHANGED worker
     ELSE /\ jobs' = [jobs EXCEPT ![j].state = "active"]
          /\ worker' = [worker EXCEPT ![w] = [pc |-> "incr", job |-> j]]
          /\ UNCHANGED attemptLog
  /\ UNCHANGED <<fixed, outcome, isPaused, epExists, cache, events, nextEventId,
                 attempted, listener, api, resumed>>

\* const key = `rate:${event.endpoint.id}:${now}`, redisClient.incr(key) and the
\* expire of a new key; the pause that follows changes nothing
ProcessorIncr(w) ==
  /\ worker[w].pc = "incr"
  /\ LET key == <<events[jobs[worker[w].job].eventId].endpointId, clock>>
         currentCount == INCR(rate[key])
     IN /\ rate' = [rate EXCEPT ![key] = currentCount]
        /\ ttl' = IF currentCount = 1 THEN [ttl EXCEPT ![key] = expireSeconds(build)] ELSE ttl
  /\ worker' = [worker EXCEPT ![w].pc = "post"]
  /\ UNCHANGED <<modeVars, classified, backoff, clock, gate, counts, ingestVars, verifyVars,
                 loggerVars, sweepVars, guardVars, headerVars, isPaused, epExists, cache,
                 events, nextEventId, jobs, attemptLog, attempted, listener, api, resumed,
                 outcome>>

NextLookup ==
  \/ \E w \in Workers : \E j \in 1..MaxJobs : ProcessorFindEvent(w, j)
  \/ \E w \in Workers : ProcessorIncr(w)
  \/ \E w \in Workers : \E r \in Responses : WorkerPost(w, r)
  \/ \E w \in Workers : \E ok \in BOOLEAN : WorkerUpdateCompleted(w, ok)
  \/ \E w \in Workers : \E ok \in BOOLEAN : WorkerUpdateFailed(w, ok)
  \/ \E j \in 1..MaxJobs : PromoteDelayed(j)
  \/ \E d \in Endpoints : DeleteEndpoint(d)

LookupSpec == InitLookup /\ [][NextLookup]_vars

(***************************************************************************)
(* Ingest, pause/resume and dispatch interleaved, with no replay and no    *)
(* bulk recovery requested.                                                *)
(***************************************************************************)
NextDelivery ==
  \/ \E a \in Api : \E d \in Endpoints : IngestCacheGet(a, d)
  \/ \E a \in Api : IngestFindEndpoint(a)
  \/ \E a \in Api : IngestCacheSet(a)
  \/ \E a \in Api : IngestVerify(a)
  \/ \E a \in Api : IngestCreate(a)
  \/ \E a \in Api : IngestAddJob(a)
  \/ \E a \in Api : \E d \in Endpoints : ToggleFind(a, d)
  \/ \E a \in Api : ToggleUpdateEndpoint(a)
  \/ \E a \in Api : ToggleFindPaused(a)
  \/ \E a \in Api : ToggleUpdateMany(a)
  \/ \E a \in Api : ToggleAddJobsBulk(a)
  \/ \E a \in Api : ToggleReply(a)
  \/ \E w \in Workers : WorkerStep(w)
  \/ EnvStep

DeliverySpec == Init /\ [][NextDelivery]_vars

(***************************************************************************)
(* Properties.                                                             *)
(***************************************************************************)
\* no request is in flight
Quiescent == \A a \in Api : api[a].op = "idle"

\* some job of event e is waiting, delayed or being processed
Outstanding(e) ==
  \E j \in DOMAIN jobs : jobs[j].eventId = e /\ jobs[j].state \in {"waiting", "delayed", "active"}

\* C1: an accepted ingest stores the event PAUSED and enqueues nothing when the
\* destination is paused at that moment, and otherwise stores it PENDING and
\* enqueues exactly one work item for it.
C1_IngestFollowsPauseState ==
  [][\A a \in Api :
       /\ (api[a].op = "ingest" /\ api[a].pc = "create" /\ nextEventId' = nextEventId + 1)
            => /\ events'[nextEventId].status = initialStatus(isPaused[api[a].id])
               /\ (api'[a].pc = "addJob") = ~isPaused[api[a].id]
       /\ (api[a].op = "ingest" /\ api[a].pc = "addJob" /\ api'[a].op = "idle")
            => jobs' = Append(jobs, NewJob(api[a].ev))]_vars

\* the PAUSED events of destination d
PausedOf(d) == {e \in DOMAIN events : events[e].endpointId = d /\ events[e].status = "PAUSED"}

\* connection a takes a step of a resume
ResumeStep(a) ==
  api[a].op = "toggle" /\ api[a].newPausedState = FALSE /\ api'[a] # api[a]

\* C2: a resume with no other operation interleaved changes to PENDING exactly
\* the PAUSED events of the destination, enqueues exactly one work item for
\* each of them and for no other event, reports their number as the flushed
\* count, and leaves every other event as it was.
C2_ResumeFlushesExactlyPaused ==
  [][\A a \in Api : ResumeStep(a) =>
       /\ api[a].pc = "updateMany" =>
            /\ api[a].evs = PausedOf(api[a].id)
            /\ DOMAIN events' = DOMAIN events
            /\ \A e \in DOMAIN events :
                 events'[e] = IF e \in PausedOf(api[a].id)
                              THEN [events[e] EXCEPT !.status = "PENDING"] ELSE events[e]
            /\ jobs' = jobs
       /\ api[a].pc = "addJobsBulk" =>
            /\ events' = events
            /\ Len(jobs') = Len(jobs) + Cardinality(api[a].evs)
            /\ \A j \in 1..Len(jobs) : jobs'[j] = jobs[j]
            /\ \A e \in api[a].evs :
                 Cardinality({j \in (Len(jobs) + 1)..Len(jobs') : jobs'[j] = NewJob(e)}) = 1
            /\ api'[a].recoveredCount = Cardinality(api[a].evs)
       /\ api[a].pc \notin {"updateMany", "addJobsBulk"} => events' = events /\ jobs' = jobs
       /\ (api[a].pc = "findPaused" /\ api'[a].pc = "reply") =>
            PausedOf(api[a].id) = {} /\ api'[a].recoveredCount = 0]_vars

\* a serial resume is about to reply that it flushed one event or more, while
\* an event of another destination is still PAUSED
C2_Witness ==
  \E a \in Api :
    /\ serial /\ api[a].op = "toggle" /\ api[a].pc = "reply" /\ api[a].recoveredCount >= 1
    /\ \A e \in api[a].evs : events[e].status = "PENDING" /\ Outstanding(e)
    /\ \E e \in DOMAIN events : events[e].endpointId # api[a].id /\ events[e].status = "PAUSED"

\* C3: a resume that follows a resume of the same destination, no event having
\* been ingested for it in between, changes no status, enqueues nothing and
\* reports a flushed count of 0.
C3_SecondResumeChangesNothing ==
  [][\A a \in Api : (ResumeStep(a) /\ api[a].id \in resumed) =>
       /\ events' = events
       /\ jobs' = jobs
       /\ api'[a].recoveredCount = 0]_vars

\* a second resume is looking for PAUSED events, the event that the first
\* one flushed still waiting in the queue
C3_Witness ==
  \E a \in Api :
    /\ serial /\ api[a].op = "toggle" /\ api[a].newPausedState = FALSE
    /\ api[a].pc = "findPaused" /\ api[a].id \in resumed
    /\ \E e \in EventsOf(api[a].id) : events[e].status = "PENDING" /\ Outstanding(e)

\* no event is left PENDING with nothing scheduled for it once the requests
\* have returned
NoPendingWithoutItem ==
  Quiescent => \A e \in DOMAIN events : events[e].status = "PENDING" => Outstanding(e)

\* connection a runs a resume that holds the events it is going to enqueue
Flushing(a) == api[a].op = "toggle" /\ api[a].pc \in {"updateMany", "addJobsBulk"}

\* no two resumes hold the same event to enqueue
NoEventFlushedTwice ==
  \A a, b \in Api : (a # b /\ Flushing(a) /\ Flushing(b)) => api[a].evs \cap api[b].evs = {}

\* C4: the resume transition is atomic: under every interleaving with ingests
\* and other pause/resume requests no event ends up PENDING without a work
\* item, and no event receives two work items from resumes.
C4_ResumeIsAtomic == NoPendingWithoutItem /\ NoEventFlushedTwice

\* connection a takes a step of a pause: the request that found the
\* destination not paused, from its first read to its reply
PauseStep(a) ==
  \/ api[a].op = "toggle" /\ api[a].newPausedState = TRUE /\ api'[a] # api[a]
  \/ api[a].op = "idle" /\ api'[a].op = "toggle" /\ api'[a].newPausedState = TRUE

\* C5: a pause only sets the paused flag of its destination: it changes no
\* event status and neither adds nor removes a work item, so whatever is
\* queued stays queued and is still dispatched.
C5_PauseOnlySetsFlag ==
  [][\A a \in Api : PauseStep(a) =>
       /\ events' = events
       /\ jobs' = jobs
       /\ attemptLog' = attemptLog /\ worker' = worker
       /\ \A d \in Endpoints :
            isPaused'[d] # isPaused[d] => (d = api[a].id /\ isPaused'[d] = TRUE)]_vars

\* a pause is about to reply while an event of its destination is PENDING
\* with its work item in the queue
C5_Witness ==
  \E a \in Api :
    /\ api[a].op = "toggle" /\ api[a].newPausedState = TRUE /\ api[a].pc = "reply"
    /\ isPaused[api[a].id]
    /\ \E e \in EventsOf(api[a].id) : events[e].status = "PENDING" /\ Outstanding(e)

\* C6: an event is PAUSED only while its destination is paused and before any
\* delivery attempt of it, and it leaves PAUSED for PENDING only through a
\* resume or a bulk recovery.
C6_PausedOnlyWhilePaused ==
  /\ [](Quiescent =>
          \A e \in DOMAIN events :
            events[e].status = "PAUSED" => (isPaused[events[e].endpointId] /\ e \notin attempted))
  /\ [][\A e \in DOMAIN events \cap DOMAIN events' :
          (events[e].status = "PAUSED" /\ events'[e].status = "PENDING") =>
            \E a \in Api : /\ api[a].op \in {"toggle", "recover"}
                           /\ api[a].pc = "updateMany" /\ api'[a] # api[a]]_vars

\* C7: a failed call is fatal exactly when a response was received whose
\* status is in [400, 500) and is neither 429 nor 408; a 5xx status and the
\* absence of a response are transient.
C7_FatalExactly4xxBut429And408 ==
  classified.done =>
    (classified.isFatalError <=>
       /\ classified.response # NoResponse
       /\ classified.response >= 400 /\ classified.response < 500
       /\ classified.response \notin {429, 408})

\* C8: a call answered 2xx records exactly one successful attempt, sets the
\* event to COMPLETED and finishes the work item, which is not rescheduled.
C8_SuccessCompletes ==
  [][\A w \in Workers :
       LET j == worker[w].job
           e == jobs[j].eventId
       IN  /\ (worker[w].pc = "post" /\ worker'[w].pc = "updateCompleted") =>
                 attemptLog'[j] = [attemptLog[j] EXCEPT !.ok = @ + 1]
           /\ (worker[w].pc = "updateCompleted" /\ worker'[w].pc = "idle") =>
                 /\ e \in DOMAIN events' /\ events'[e].status = "COMPLETED"
                 /\ jobs'[j].state = "removed"
                 /\ attemptLog'[j].failed <= attemptLog[j].failed]_vars

\* C9: a failed call classified fatal records exactly one failed attempt and
\* sets the event to FAILED; the work item is finished and not rescheduled,
\* so no further outbound attempt of it is made.
C9_FatalFails ==
  [][\A w \in Workers :
       LET j == worker[w].job
           e == jobs[j].eventId
       IN  /\ (worker[w].pc = "post" /\ worker'[w].pc = "updateFailed") =>
                 attemptLog'[j] = [attemptLog[j] EXCEPT !.failed = @ + 1]
           /\ (worker[w].pc = "updateFailed" /\ worker'[w].pc = "idle") =>
                 /\ e \in DOMAIN events' /\ events'[e].status = "FAILED"
                 /\ jobs'[j].state = "removed"]_vars

\* C10: a failed call classified transient, the retry ceiling not reached,
\* records exactly one failed attempt, leaves the status of the event as it
\* is and reschedules the same work item for a later attempt.
C10_TransientReschedules ==
  [][\A w \in Workers :
       LET j == worker[w].job IN
         (worker[w].pc = "post" /\ worker'[w].pc = "idle" /\ jobs[j].attemptsMade + 1 < attempts) =>
           /\ attemptLog'[j] = [attemptLog[j] EXCEPT !.failed = @ + 1]
           /\ events' = events
           /\ jobs' = [jobs EXCEPT ![j] = [@ EXCEPT !.attemptsMade = @ + 1, !.state = "delayed"]]
           /\ listener' = listener]_vars

\* a work item waits for its backoff after one transient failure, one failed
\* attempt recorded and its event still PENDING
C10_Witness ==
  \E j \in DOMAIN jobs :
    /\ jobs[j].state = "delayed" /\ jobs[j].attemptsMade = 1
    /\ attemptLog[j] = [ok |-> 0, failed |-> 1]
    /\ Exists(jobs[j].eventId) /\ events[jobs[j].eventId].status = "PENDING"

\* C11 as stated: the delay before the Nth retry of a work item that keeps
\* failing transiently is baseDelay * 2^N, N = 1 for the first retry.
C11_DelayIsBaseTimesTwoToN ==
  \A j \in RetryJobs :
    backoff[j].state = "delayed" =>
      backoff[j].delay = 5000 * 2^(backoff[j].attemptsMade)

\* C11, amended: the delay before the Nth retry (N = 1 for the first retry,
\* which follows the first failed attempt) is 5000 ms * 2^(N - 1); each retry
\* delay is strictly larger than the one before; and the delay the dispatcher
\* logs for the next retry is the delay the queue applies.
C11_DelayIsBaseTimesTwoToNMinus1 ==
  \A j \in RetryJobs :
    backoff[j].state = "delayed" =>
      /\ backoff[j].delay = 5000 * 2^(backoff[j].attemptsMade - 1)
      /\ backoff[j].attemptsMade > 1 => backoff[j].delay > backoff[j].previous
      /\ backoff[j].nextDelayMs = backoff[j].delay

\* a work item waits for its last retry, the 17th, after 17 failed attempts
C11_Witness ==
  \E j \in RetryJobs :
    /\ backoff[j].state = "delayed" /\ backoff[j].attemptsMade = attempts - 1
    /\ backoff[j].delay = 327680000 /\ backoff[j].previous = 163840000

\* the status of event e is COMPLETED or FAILED
Terminal(e) == Exists(e) /\ events[e].status \in {"COMPLETED", "FAILED"}

\* C12: a work item is attempted at most 18 times; when its 18th attempt fails
\* the failure listener sets the event to FAILED, so an event whose retries
\* are exhausted ends in FAILED; before the ceiling the listener never sets
\* FAILED.
C12_CeilingThenFailed ==
  /\ [](\A j \in DOMAIN jobs :
          /\ jobs[j].attemptsMade <= 18
          /\ jobs[j].state \in {"waiting", "delayed", "active"} => jobs[j].attemptsMade < 18)
  /\ [][\A j \in listener :
          (j \notin listener' /\ events' # events) => jobs[j].attemptsMade >= 18]_vars
  /\ [](\A j \in DOMAIN jobs :
          (jobs[j].state = "failed" /\ j \notin listener /\ Exists(jobs[j].eventId))
            => events[jobs[j].eventId].status = "FAILED")

\* C13: with the queue, the workers and the listener scheduled fairly and no
\* replay, recovery or deletion, every event that has a work item eventually
\* is COMPLETED or FAILED with no work item left for it.
C13_EventuallyTerminal ==
  \A e \in 1..MaxEvents : Outstanding(e) ~> (Terminal(e) /\ ~Outstanding(e))

\* C14: the k-th dispatch of one endpoint in one second, with rate limit L,
\* waits floor((k - 1) / L) windows of 1000 ms before the outbound call
\* (L = 5: 1-5 none, 6-10 one window, 11-12 two windows).
C14_DelayIsWindowIndexWindows ==
  \A g \in Gates :
    gate[g].pc = "post" =>
      gate[g].delayMs = ((gate[g].currentCount - 1) \div limit(gate[g].key[1])) * 1000

\* C15: the values the counter returns to concurrent dispatches of one
\* endpoint in one second are 1, 2, 3, ... without a repeat, so at most
\* `limit` of them fall in each window index, and no two dispatches in flight
\* hold the same value.
C15_CountsDistinctAndConsecutive ==
  /\ \A k \in Keys :
       /\ \A i \in DOMAIN counts[k] : counts[k][i] = i
       /\ \A w \in 0..MaxAdmissions :
            Cardinality({i \in DOMAIN counts[k] :
                           windowIndex(counts[k][i], limit(k[1])) = w}) <= limit(k[1])
  /\ \A g, h \in Gates :
       (g # h /\ gate[g].pc # "idle" /\ gate[h].pc # "idle" /\ gate[g].key = gate[h].key)
         => gate[g].currentCount # gate[h].currentCount

\* two dispatches of d1 in flight in the same second, one on each side of a
\* window boundary, after more than two windows were handed out
C15_Witness ==
  /\ Len(counts[<<"d1", 0>>]) = 11
  /\ gate["g1"].pc = "window" /\ gate["g2"].pc = "window"
  /\ gate["g1"].key = <<"d1", 0>> /\ gate["g2"].key = <<"d1", 0>>
  /\ {gate["g1"].currentCount, gate["g2"].currentCount} = {10, 11}

\* C17: when the endpoint has a secret and a provider other than generic and
\* the verifier returns false, ingest fails with the invalid-signature error
\* and the call ends there: no event row is created, no job is added.
C17_InvalidSignatureRejects ==
  [][\A a \in Api :
       (/\ api[a].op = "ingest" /\ api[a].pc = "ingest"
        /\ outcome'[a] # outcome[a]
        /\ outcome'[a].verdict = "false")
         => /\ row[api[a].id].secret /\ row[api[a].id].provider # "generic"
            /\ outcome'[a].status = 400 /\ outcome'[a].error = "Invalid Signature"
            /\ api'[a] = IdleApi
            /\ events' = events /\ jobs' = jobs /\ nextEventId' = nextEventId]_vars

\* the verifier returned false in a request to a Stripe endpoint that some
\* earlier request has put an event in the store for
C17_Witness ==
  \E a \in Api :
    /\ outcome[a].verdict = "false" /\ outcome[a].error = "Invalid Signature"
    /\ api[a] = IdleApi
    /\ row[outcome[a].id].provider = "Stripe"
    /\ EventsOf(outcome[a].id) # {}

\* C18: ingest for an endpoint that is missing or inactive is rejected, also
\* while the cached copy of its pause state is present; the rejected call
\* creates no event row and adds no job.
C18_MissingOrInactiveRejected ==
  [][\A a \in Api :
       (/\ api[a].op = "ingest"
        /\ api'[a] # api[a]
        /\ ~epExists[api[a].id] \/ ~row[api[a].id].isActive)
         => /\ events' = events /\ jobs' = jobs /\ nextEventId' = nextEventId
            /\ api'[a].pc \notin {"create", "addJob"}
            /\ api'[a] = IdleApi => outcome'[a].status \in {400, 404}]_vars

\* a request answered 400 for an endpoint whose row is gone while the cache
\* still holds its pause state
C18_Witness ==
  \E a \in Api :
    /\ outcome[a].status = 400 /\ outcome[a].error = "Endpoint not found or inactive"
    /\ api[a] = IdleApi
    /\ ~epExists[outcome[a].id]
    /\ cache[outcome[a].id].hit

\* C19: for an endpoint without a secret, or with provider "generic", no
\* ingest ends with the invalid-signature error, whatever the request carries.
C19_NoSecretOrGenericNeverInvalid ==
  \A a \in Api :
    outcome[a].error = "Invalid Signature" =>
      row[outcome[a].id].secret /\ row[outcome[a].id].provider # "generic"

\* an unsigned request accepted by a Stripe endpoint that has no secret
C19_Witness ==
  \E a \in Api :
    /\ outcome[a].status = 200 /\ ~outcome[a].signed
    /\ ~row[outcome[a].id].secret /\ row[outcome[a].id].provider = "stripe"

\* the first element of the header with key k and an '=', 0 when there is none
FirstElement(k) ==
  IF \E i \in DOMAIN verified.fields : verified.fields[i].key = k /\ verified.fields[i].eq
  THEN CHOOSE i \in DOMAIN verified.fields :
         /\ verified.fields[i].key = k /\ verified.fields[i].eq
         /\ \A j \in 1..(i - 1) : ~(verified.fields[j].key = k /\ verified.fields[j].eq)
  ELSE 0
TimestampOf == verified.fields[FirstElement("t")].value
SignatureOf == verified.fields[FirstElement("v1")].value

\* C16: verify returns false when the stripe-signature header is absent, is
\* not a string, has no timestamp element or no signature element, has a
\* timestamp more than 300 s before now, or has a signature that is not the
\* hex HMAC-SHA256 of "{timestamp}.{rawBody}" under the secret (a different
\* length included); it returns true for a fresh timestamp with that HMAC.
C16_StripeVerifyFailsClosed ==
  verified.done =>
    /\ verified.header # "string" => ~verified.result
    /\ verified.header = "string" =>
         /\ (FirstElement("t") = 0 \/ FirstElement("v1") = 0) => ~verified.result
         /\ (FirstElement("t") # 0 /\ FirstElement("v1") # 0) =>
              /\ (/\ Len(TimestampOf) = 1 /\ TimestampOf[1].kind = "num"
                  /\ verified.now - TimestampOf[1].n > 300) => ~verified.result
              /\ SignatureOf # <<digest(verified.secret, TimestampOf, verified.rawBody)>>
                   => ~verified.result
              /\ (/\ Len(TimestampOf) = 1 /\ TimestampOf[1].kind = "num"
                  /\ verified.now - TimestampOf[1].n <= 300
                  /\ SignatureOf = <<digest(verified.secret, TimestampOf, verified.rawBody)>>)
                   => verified.result

\* the number of createMany calls whose dataToWrite holds entry e
TimesHanded(e) ==
  Cardinality({<<c, i>> \in (DOMAIN handed) \X (1..MaxEntries) :
                 i \in DOMAIN handed[c] /\ handed[c][i] = e})
TimesBuffered(e) == Cardinality({i \in DOMAIN buffer : buffer[i] = e})

\* C20: whatever the order of add calls, flushes of a full buffer, of the
\* timer and of the shutdown, and bulk writes still in progress, every entry
\* added is in the buffer or in the data of exactly one createMany call,
\* never in two, and an entry that left the buffer was handed to a write.
C20_EachEntryHandedOnce ==
  \A e \in 1..MaxEntries :
    /\ e <= added => TimesHanded(e) + TimesBuffered(e) = 1
    /\ e > added => TimesHanded(e) + TimesBuffered(e) = 0

\* a flush has started while two earlier writes are still in progress, one of
\* them of a full buffer, and another entry waits in the buffer
C20_Witness ==
  /\ Cardinality(createMany) = 3
  /\ \E c \in createMany : Len(handed[c]) = BATCH_SIZE
  /\ \E c \in createMany : Len(handed[c]) < BATCH_SIZE
  /\ buffer # <<>>

\* C21: when the createMany of a flush is rejected the entries of that flush
\* are dropped (never stored, not put back), the promise of flush() is not
\* rejected, so no caller of add or flush sees the failure, and with the
\* timer running every entry added, also after a failure, is handed to a
\* createMany call.
C21_FailedWriteDropsOnlyItsBatch ==
  /\ [](\A c \in failedWrites :
          \A e \in Entries(c) :
            e \notin stored /\ (\A i \in DOMAIN buffer : buffer[i] # e))
  /\ [](unhandled = {})
  /\ \A e \in 1..MaxEntries : (added >= e) ~> (\E c \in DOMAIN handed : e \in Entries(c))

\* the first write was rejected and an entry added after it has been stored
C21_Witness ==
  /\ 1 \in failedWrites
  /\ \E e \in stored : \A f \in Entries(1) : e > f

\* C22: when the process exits after SIGINT, every entry recorded before the
\* exit, those of the attempts that finished while the worker closed
\* included, was handed to a createMany call: the buffer is empty.
C22_BufferEmptyAtExit ==
  proc = "exited" => buffer = <<>>

\* the COMPLETED rows of endpoint d received before the cutoff, among the rows
\* the sweep found when it began
OldCompletedBefore(d) ==
  {e \in DOMAIN before : /\ before[e].endpointId = d
                         /\ before[e].status = "COMPLETED"
                         /\ receivedAt[e] < cutoffDate}

\* C23: a sweep that ran to its end with nothing else running has added to
\* every endpoint's archivedSuccessCount the number of its COMPLETED rows
\* older than the cutoff and has deleted exactly those rows; the COMPLETED
\* rows that are not older remain.
C23_SweepArchivesExactlyOldCompleted ==
  (alone /\ cleanup.pc = "done") =>
    \A d \in Endpoints :
      /\ archivedBy[d] = Cardinality(OldCompletedBefore(d))
      /\ deletedBy[d] = OldCompletedBefore(d)

\* d1 had two old COMPLETED rows, d2 a COMPLETED row received at the cutoff:
\* d1's counter is 2 and d2's row is still there
C23_Witness ==
  /\ alone /\ cleanup.pc = "done"
  /\ archivedBy["d1"] = 2 /\ archivedSuccessCount["d1"] = 2 /\ EventsOf("d1") = {}
  /\ archivedBy["d2"] = 0
  /\ \E e \in EventsOf("d2") : events[e].status = "COMPLETED" /\ receivedAt[e] = 3

\* C24: a step of the sweep deletes only COMPLETED rows received before the
\* cutoff, no step decreases archivedSuccessCount, and only the sweep's
\* transaction changes it.
C24_SweepDeletesOnlyOldCompleted ==
  [][/\ \A d \in Endpoints : archivedSuccessCount'[d] >= archivedSuccessCount[d]
     /\ archivedSuccessCount' # archivedSuccessCount => cleanup.pc = "loop"
     /\ cleanup' # cleanup =>
          \A e \in DOMAIN events \ DOMAIN events' :
            events[e].status = "COMPLETED" /\ receivedAt[e] < cutoffDate]_vars

\* the sweep has deleted a row of d1 and left the FAILED, PENDING and recent
\* rows of the store in place
C24_Witness ==
  /\ cleanup.pc = "done" /\ deletedBy["d1"] # {}
  /\ \E e \in DOMAIN events : events[e].status = "FAILED" /\ receivedAt[e] < cutoffDate
  /\ \E e \in DOMAIN events : events[e].status = "PENDING" /\ receivedAt[e] < cutoffDate

\* C25: what a sweep has added to an endpoint's archivedSuccessCount is the
\* number of rows it has deleted for that endpoint, at every moment, also
\* when events are replayed or endpoints deleted between the groupBy and the
\* transaction, and when the sweep stops between two endpoints.
C25_CounterMatchesDeletedRows ==
  \A d \in Endpoints : archivedBy[d] = Cardinality(deletedBy[d])

\* C26: the stored target address of every endpoint is one isSafeUrl
\* accepts, after any sequence of create and edit requests.
C26_StoredTargetPassedTheGuard ==
  \A d \in Created : isSafeUrl(targetUrl[d])

\* the ranges that are not globally routable
NonRoutable ==
  {"private", "loopback", "linkLocal", "carrierGradeNat", "unspecified", "broadcast",
   "multicast", "reserved", "uniqueLocal"}

\* C27: isSafeUrl answers false for a target that does not parse, whose
\* scheme is not http or https, whose host does not resolve, or whose host
\* resolves to an address of a range that is not globally routable.
C27_GuardRejectsNonRoutable ==
  LET t == request.targetUrl IN
    (/\ request.safe # "not called"
     /\ \/ URLThrows(t)
        \/ t.protocol \notin {"http:", "https:"}
        \/ t.hostname \notin DOMAIN Resolves
        \/ range(Resolves[t.hostname]) \in NonRoutable)
    => request.safe = "false"

\* the inbound headers a delivery must not carry
Stripped == {"host", "content-length", "connection", "accept-encoding"}

\* C30: the headers of every outbound request hold none of host,
\* content-length, connection and accept-encoding, and hold every other
\* stored header of the event with its stored value.
C30_StripsFourForwardsRest ==
  posted.sent =>
    /\ DOMAIN posted.headers \cap Stripped = {}
    /\ \A k \in DOMAIN headers \ Stripped :
         k \in DOMAIN posted.headers /\ posted.headers[k] = headers[k]

\* the step is the status update of a replay or of a bulk recovery
ReplayOrRecoverStep ==
  \E a \in Api : /\ api[a].op \in {"replay", "recover"}
                 /\ api[a].pc \in {"update", "updateMany"}
                 /\ api'[a] # api[a]

\* C29: a FAILED event stays FAILED in every step that is not the status
\* update of a replay or of a bulk recovery: no step of the dispatcher, of
\* the failed listener or of a resume changes it.
C29_FailedStaysFailed ==
  [][\A e \in DOMAIN events :
       (events[e].status = "FAILED" /\ e \in DOMAIN events' /\ events'[e].status # "FAILED")
         => ReplayOrRecoverStep]_vars

\* C28: a FAILED event is found by a replay whenever no other request is
\* running; the update of a replay sets the event PENDING and its addJob
\* appends exactly one work item for that event, waiting and with no
\* attempt made.
C28_ReplayRequeuesFailedOnce ==
  [][/\ \A e \in DOMAIN events :
          (events[e].status = "FAILED" /\ OthersIdle("a1") /\ api["a1"].op = "idle")
            => ENABLED ReplayFind("a1", e)
     /\ \A a \in Api :
          (api[a].op = "replay" /\ api[a].pc = "update" /\ api'[a] # api[a])
            => /\ api'[a].pc = "addJob"
               /\ events'[api[a].ev].status = "PENDING"
     /\ \A a \in Api :
          (api[a].op = "replay" /\ api[a].pc = "addJob" /\ api'[a] # api[a])
            => jobs' = Append(jobs, [eventId |-> api[a].ev, attemptsMade |-> 0,
                                     state |-> "waiting"])]_vars

\* the replay of event 1, FAILED after its last attempt, has finished: the
\* event is PENDING and has one work item besides the dead one, a fresh one
C28_Witness ==
  /\ \A a \in Api : api[a].op = "idle"
  /\ events[1].status = "PENDING"
  /\ jobs = <<[eventId |-> 1, attemptsMade |-> attempts, state |-> "failed"],
              [eventId |-> 1, attemptsMade |-> 0, state |-> "waiting"]>>

\* C31: a step that takes a waiting work item whose event is gone removes
\* the work item from the queue and does nothing else: the worker stays
\* idle, no entry is recorded, no rate counter is touched, the failed
\* listener is not called and no event is changed.
C31_MissingEventIsDiscarded ==
  [][\A j \in DOMAIN jobs :
       (jobs[j].state = "waiting" /\ ~Exists(jobs[j].eventId) /\ jobs'[j] # jobs[j])
         => /\ jobs' = [jobs EXCEPT ![j] = Removed]
            /\ worker' = worker
            /\ attemptLog'[j] = NoEntries
            /\ rate' = rate /\ ttl' = ttl
            /\ attempted' = attempted
            /\ listener' = listener
            /\ events' = events]_vars

\* the work item of event 1, deleted with its endpoint, was taken and
\* removed while that of event 2 was delivered and counted
C31_Witness ==
  /\ ~Exists(1) /\ jobs[1] = Removed
  /\ Exists(2) /\ 2 \in attempted
  /\ \E k \in Keys : rate[k] = 1
  /\ \A k \in Keys : rate[k] <= 1
  /\ \A w \in Workers : worker[w].pc = "idle"

\* the events whose status a step changes
Changed == {e \in DOMAIN events \cap DOMAIN events' : events'[e].status # events[e].status}

\* C32: the updateMany of a bulk recovery changes to PENDING exactly the
\* FAILED events of the endpoint, they are the events the recovery found
\* and enqueues, and its addJobsBulk appends one fresh work item for each of
\* them, also while the dispatcher and other requests run.
C32_RecoveryRequeuesExactlyFailed ==
  [][\A a \in Api :
       /\ (api[a].op = "recover" /\ api[a].pc = "updateMany" /\ api'[a] # api[a])
            => /\ Changed = findManyStatus(api[a].id, "FAILED")
               /\ \A e \in Changed : events'[e].status = "PENDING"
               /\ Changed = api[a].evs
       /\ (api[a].op = "recover" /\ api[a].pc = "addJobsBulk" /\ api'[a] # api[a])
            => /\ Len(jobs') = Len(jobs) + Cardinality(api[a].evs)
               /\ \A e \in api[a].evs :
                    Cardinality({j \in DOMAIN jobs' \ DOMAIN jobs : jobs'[j] = NewJob(e)}) = 1
               /\ events' = events]_vars

\* the entry the catch block hands to batchLogger.add for the rejection it
\* has classified
CaughtEntry == LogEntry(0, FALSE, classified.status)

\* C33: the entry recorded for a failed attempt has success = false and
\* carries the status code the receiver returned, and no status code
\* (NoResponse) when the attempt ended without a response.
C33_NoResponseRecordsNoStatus ==
  classified.done =>
    /\ CaughtEntry.success = FALSE
    /\ CaughtEntry.responseStatus = classified.response

\* the delays the queue has applied to a work item that failed `made` times
RECURSIVE SumOfDelays(_)
SumOfDelays(made) ==
  IF made = 0 THEN 0
  ELSE SumOfDelays(made - 1) + (IF made < attempts THEN exponential(made, baseDelay) ELSE 0)

DayMs == 24 * 60 * 60 * 1000

\* C34: when a work item has failed transiently at all of its 18 attempts,
\* the delays between its first and its last attempt add up to roughly two
\* weeks: between 13 and 16 days (2^18 * 5 s are 15.2 days).
C34_BackoffSpansTwoWeeks ==
  \A j \in RetryJobs :
    backoff[j].state = "failed" =>
      /\ SumOfDelays(backoff[j].attemptsMade) >= 13 * DayMs
      /\ SumOfDelays(backoff[j].attemptsMade) <= 16 * DayMs

\* C35: with no replay requested, no step changes the status of a COMPLETED
\* event and the dispatcher makes no outbound call for a COMPLETED event,
\* also when a status update is rejected and when the event has more than
\* one work item.
C35_CompletedIsFinal ==
  [][/\ \A e \in DOMAIN events \cap DOMAIN events' :
          events[e].status = "COMPLETED" => events'[e].status = "COMPLETED"
     /\ \A w \in Workers :
          (worker[w].pc = "post" /\ worker'[w] # worker[w]
             /\ Exists(jobs[worker[w].job].eventId))
            => events[jobs[worker[w].job].eventId].status # "COMPLETED"]_vars

\* the work items of event e that are waiting, delayed or being processed
OutstandingItems(e) ==
  {j \in DOMAIN jobs : jobs[j].eventId = e /\ jobs[j].state \in {"waiting", "delayed", "active"}}

\* C36: in every reachable state every event has at most one work item
\* that is waiting, delayed or being processed.
C36_OneOutstandingItemPerEvent ==
  \A e \in DOMAIN events : Cardinality(OutstandingItems(e)) <= 1

\* C37: whenever no request is in flight, every PENDING event has a work
\* item that is waiting, delayed or being processed.
C37_PendingHasWorkItem ==
  (\A a \in Api : api[a].op = "idle") =>
    \A e \in DOMAIN events : events[e].status = "PENDING" => OutstandingItems(e) # {}

\* the entries recorded for work item j
EntriesOf(log, j) == log[j].ok + log[j].failed

\* C38: an entry is recorded for a work item only in the step of its
\* outbound call, one entry per call, with success = true exactly when the
\* call was answered 2xx; no other step of the dispatcher, in particular no
\* rejected status update, records an entry.
C38_OneEntryPerCall ==
  [][\A j \in DOMAIN jobs \cap DOMAIN jobs' :
       LET calls == \E w \in Workers : worker[w].pc = "post" /\ worker[w].job = j
                                        /\ worker'[w] # worker[w]
           answered2xx == \E w \in Workers : worker[w].job = j
                                              /\ worker'[w].pc = "updateCompleted"
       IN /\ calls => /\ EntriesOf(attemptLog', j) = EntriesOf(attemptLog, j) + 1
                      /\ answered2xx <=> attemptLog'[j].ok = attemptLog[j].ok + 1
          /\ ~calls => EntriesOf(attemptLog', j) <= EntriesOf(attemptLog, j)]_vars

\* C39: isSafeUrl answers true for an http or https target whose host
\* resolves to an ordinary unicast address, one outside every special range.
C39_GuardAcceptsPublicTargets ==
  LET t == request.targetUrl IN
    (/\ request.safe # "not called"
     /\ ~URLThrows(t)
     /\ t.protocol \in {"http:", "https:"}
     /\ t.hostname \in DOMAIN Resolves
     /\ range(Resolves[t.hostname]) = "unicast")
    => request.safe = "true"

\* C40: for an endpoint with a secret and a provider other than generic, an
\* event row is created only by a request whose signature was right, whatever
\* the provider tag is.
C40_PersistedOnlyWhenSigned ==
  [][\A a \in Api :
       (/\ api[a].op = "ingest" /\ api[a].pc = "create"
        /\ nextEventId' = nextEventId + 1
        /\ row[api[a].id].secret /\ row[api[a].id].provider # "generic")
         => outcome[a].id = api[a].id /\ outcome[a].signed]_vars

=============================================================================
